---- MODULE Spec2Model ----
(***************************************************************************)
(* A state-machine model of jetson_clocks.hpp.                             *)
(*                                                                         *)
(* The library keeps no state of its own: its state is the file system it  *)
(* reads and writes, the effective user of the process, and the FILE       *)
(* handles the process holds.  Three copies of the implementation exist:   *)
(*   "bool"   src/jetson_clocks.hpp          (failures are return values)  *)
(*   "throw"  src/unnamed/part_000:1-874     (failures are exceptions)     *)
(*   "legacy" src/unnamed/part_000:876-959   (first draft: board discovery *)
(*                                            and set_fan_speed only)      *)
(*                                                                         *)
(* A std::string is a sequence of characters.  A character is a one-letter *)
(* TLA+ string; a run of letters that no operation of the library ever     *)
(* splits (a governor name, a family name, one entry of the compatible     *)
(* list) is written as a single element.  Digits, signs, blanks and        *)
(* newlines are always elements of their own.                              *)
(***************************************************************************)
EXTENDS Integers, Sequences, FiniteSets, TLC

VARIABLES
    root,     \* geteuid() == 0
    variant,  \* the copy of the library the process is built with
    fs,       \* path -> [ex, wr, data]: exists, fopen(path,"w") succeeds, content
    dirs,     \* /sys/devices/system/cpu/: [open, names]
    fds,      \* FILE handles the process holds and never closes
    last,     \* the call that has just returned
    prev,     \* the call before it
    calls,    \* number of calls made
    budget,   \* number of calls the process makes
    limit,    \* number of handles the process may hold open at a time
    threads   \* the threads that run a setter step by step, if any

vars == <<root, variant, fs, dirs, fds, last, prev, calls, budget, limit, threads>>

-----------------------------------------------------------------------------
(* Bounds of the exploration.                                              *)

MaxCalls == 2
MaxCpuId == 1

-----------------------------------------------------------------------------
(* Widths of the C++ integer types involved, and the number of handles a   *)
(* process may hold when the system leaves the usual limit in place.       *)

INT_MAX == 2147483647
OPEN_MAX == 1024
UCHAR_MOD == 256

-----------------------------------------------------------------------------
(* Characters and strings.                                                 *)

NL == "\n"
SP == " "
NUL == "\\0"

Digits == <<"0", "1", "2", "3", "4", "5", "6", "7", "8", "9">>

IsDigit(c) == \E i \in 1..10 : Digits[i] = c

DigitVal(c) == (CHOOSE i \in 1..10 : Digits[i] = c) - 1

IsSpace(c) == c \in {SP, NL, "\t"}

RECURSIVE NatDigits(_)
NatDigits(n) ==
    IF n < 10 THEN <<Digits[n + 1]>>
    ELSE NatDigits(n \div 10) \o <<Digits[(n % 10) + 1]>>

(* to_string(T value): os << value, for the integer types it is used with. *)
to_string(n) == IF n < 0 THEN <<"-">> \o NatDigits(-n) ELSE NatDigits(n)

RECURSIVE SkipSpace(_)
SkipSpace(s) ==
    IF s # <<>> /\ IsSpace(Head(s)) THEN SkipSpace(Tail(s)) ELSE s

RECURSIVE DigitRun(_)
DigitRun(s) ==
    IF s # <<>> /\ IsDigit(Head(s)) THEN <<Head(s)>> \o DigitRun(Tail(s))
    ELSE <<>>

RECURSIVE DigitsVal(_, _)
DigitsVal(s, acc) ==
    IF s = <<>> THEN acc ELSE DigitsVal(Tail(s), acc * 10 + DigitVal(Head(s)))

(* The integer literal that starts a string: leading white space, an       *)
(* optional sign, then digits.  [ok, neg, run, rest]; ok is FALSE when no   *)
(* digit follows.                                                          *)
ScanInt(s) ==
    LET t    == SkipSpace(s)
        sgn  == t # <<>> /\ Head(t) \in {"-", "+"}
        u    == IF sgn THEN Tail(t) ELSE t
        run  == DigitRun(u)
    IN  [ok   |-> run # <<>>,
         neg  |-> t # <<>> /\ Head(t) = "-",
         run  |-> run,
         rest |-> SubSeq(u, Len(run) + 1, Len(u))]

RECURSIVE StripZeros(_)
StripZeros(run) ==
    IF Len(run) > 1 /\ Head(run) = "0" THEN StripZeros(Tail(run)) ELSE run

RECURSIVE LexLeq(_, _)
LexLeq(a, b) ==
    IF a = <<>> THEN TRUE
    ELSE IF DigitVal(Head(a)) # DigitVal(Head(b)) THEN DigitVal(Head(a)) < DigitVal(Head(b))
    ELSE LexLeq(Tail(a), Tail(b))

(* a <= b, for two digit runs that start with no zero.                     *)
DigitsLeq(a, b) == Len(a) < Len(b) \/ (Len(a) = Len(b) /\ LexLeq(a, b))

IntMinDigits == <<"2", "1", "4", "7", "4", "8", "3", "6", "4", "8">>

(* Whether the literal is a value of a 32-bit int, decided on its digits.  *)
InIntRange(neg, run) ==
    LET r == StripZeros(run)
    IN  DigitsLeq(r, NatDigits(INT_MAX)) \/ (neg /\ r = IntMinDigits)

IntOf(neg, run) ==
    LET r == StripZeros(run)
    IN  IF neg /\ r = IntMinDigits THEN -INT_MAX - 1
        ELSE IF neg THEN -DigitsVal(r, 0) ELSE DigitsVal(r, 0)

(* std::stoi(str): [exc, val].  exc is "" or the name of the exception.    *)
stoi(s) ==
    LET r == ScanInt(s)
    IN  IF ~r.ok THEN [exc |-> "invalid_argument", val |-> 0]
        ELSE IF ~InIntRange(r.neg, r.run) THEN [exc |-> "out_of_range", val |-> 0]
        ELSE [exc |-> "", val |-> IntOf(r.neg, r.run)]

(* The long int a literal stands for.  A long that is no int is kept as   *)
(* its sign and digits; the lists of the model hold such a value alone.    *)
LongOf(neg, run) ==
    IF InIntRange(neg, run) THEN IntOf(neg, run)
    ELSE [neg |-> neg, run |-> StripZeros(run)]

(* while (iss >> s) speeds.push_back(s): the longs read until the first    *)
(* extraction that fails.  The numbers the files of the model hold are     *)
(* within the range of a long.                                             *)
RECURSIVE ReadLongs(_)
ReadLongs(s) ==
    LET r == ScanInt(s)
    IN  IF ~r.ok THEN <<>>
        ELSE <<LongOf(r.neg, r.run)>> \o ReadLongs(r.rest)

(* An insertion that keeps one copy of equal values, as filling a std::set *)
(* would.  Not the code's: the vector keeps every value read.              *)
RECURSIVE InsertUnique(_, _)
InsertUnique(x, s) ==
    IF s = <<>> THEN <<x>>
    ELSE IF x = Head(s) THEN s
    ELSE IF x < Head(s) THEN <<x>> \o s
    ELSE <<Head(s)>> \o InsertUnique(x, Tail(s))

(* std::sort(speeds.begin(), speeds.end(), std::less<long int>())          *)
RECURSIVE Insert(_, _)
Insert(x, s) ==
    IF s = <<>> THEN <<x>>
    ELSE IF x <= Head(s) THEN <<x>> \o s
    ELSE <<Head(s)>> \o Insert(x, Tail(s))

RECURSIVE Sort(_)
Sort(s) == IF s = <<>> THEN <<>> ELSE Insert(Head(s), Sort(Tail(s)))

(* std::find(v.begin(), v.end(), x) != v.end()                             *)
Member(x, v) == \E i \in 1..Len(v) : v[i] = x

(* str.find(needle) != std::string::npos                                   *)
Find(hay, needle) ==
    \E i \in 1..(Len(hay) - Len(needle) + 1) :
        SubSeq(hay, i, i + Len(needle) - 1) = needle

RECURSIVE strip_newline(_)
strip_newline(s) ==
    IF s = <<>> THEN <<>>
    ELSE IF Head(s) = NL THEN strip_newline(Tail(s))
    ELSE <<Head(s)>> \o strip_newline(Tail(s))

(* std::istream_iterator<std::string>: the white-space separated words.    *)
RECURSIVE WordRun(_)
WordRun(s) ==
    IF s # <<>> /\ ~IsSpace(Head(s)) THEN <<Head(s)>> \o WordRun(Tail(s))
    ELSE <<>>

RECURSIVE Words(_)
Words(s) ==
    LET t == SkipSpace(s)
        w == WordRun(t)
    IN  IF t = <<>> THEN <<>>
        ELSE <<w>> \o Words(SubSeq(t, Len(w) + 1, Len(t)))

(* The characters of a string joined into a path component.                *)
RECURSIVE Cat(_)
Cat(s) == IF s = <<>> THEN "" ELSE Head(s) \o Cat(Tail(s))

-----------------------------------------------------------------------------
(* Paths.                                                                  *)

FAMILY  == "/sys/devices/soc0/family"
COMPAT  == "/proc/device-tree/compatible"
MACHINE == "/sys/devices/soc0/machine"
MODEL   == "/proc/device-tree/model"

FAN_DEBUG == "/sys/kernel/debug/tegra_fan/target_pwm"
FAN_PWM   == "/sys/devices/pwm-fan/target_pwm"

GP10B == "/sys/devices/17000000.gp10b/devfreq/17000000.gp10b/"
GM20B == "/sys/devices/57000000.gpu/devfreq/57000000.gpu/"
GV11B == "/sys/devices/17000000.gv11b/devfreq/17000000.gv11b/"
GPU_LOAD == "/sys/devices/gpu.0/load"

EMC_CAP       == "/sys/kernel/nvpmodel_emc_cap/emc_iso_cap"
BPMP_MIN      == "/sys/kernel/debug/bpmp/debug/clk/emc/min_rate"
BPMP_MAX      == "/sys/kernel/debug/bpmp/debug/clk/emc/max_rate"
BPMP_RATE     == "/sys/kernel/debug/bpmp/debug/clk/emc/rate"
BPMP_LOCKED   == "/sys/kernel/debug/bpmp/debug/clk/emc/mrq_rate_locked"
BWMGR_MIN     == "/sys/kernel/debug/tegra_bwmgr/min_rate"
BWMGR_MAX     == "/sys/kernel/debug/tegra_bwmgr/max_rate"
BWMGR_EMC_MIN == "/sys/kernel/debug/tegra_bwmgr/emc_min_rate"
BWMGR_EMC_MAX == "/sys/kernel/debug/tegra_bwmgr/emc_max_rate"
OVR_RATE      == "/sys/kernel/debug/clk/override.emc/clk_update_rate"
OVR_STATE     == "/sys/kernel/debug/clk/override.emc/clk_state"

QOS   == "/sys/module/qos/parameters/enable"
CC3_M == "/sys/kernel/debug/tegra_cpufreq/M_CLUSTER/cc3/enable"
CC3_B == "/sys/kernel/debug/tegra_cpufreq/B_CLUSTER/cc3/enable"

(* "/sys/devices/system/cpu/cpu" + to_string(cpu_id) + "/cpufreq/" + leaf  *)
CpuPath(cpu_id, leaf) ==
    "/sys/devices/system/cpu/cpu" \o Cat(to_string(cpu_id)) \o "/cpufreq/" \o leaf

CpuIds == 0..MaxCpuId

CpuLeaves == {"scaling_available_frequencies", "scaling_available_governors",
              "scaling_governor", "scaling_min_freq", "scaling_max_freq",
              "scaling_cur_freq"}

GpuLeaves == {"available_frequencies", "min_freq", "max_freq", "cur_freq",
              "device/railgate_enable"}

IdentPaths == {FAMILY, COMPAT, MACHINE, MODEL}
FanPaths   == {FAN_DEBUG, FAN_PWM}
GpuPaths   == {d \o l : d \in {GP10B, GM20B, GV11B}, l \in GpuLeaves} \cup {GPU_LOAD}
EmcPaths   == {EMC_CAP, BPMP_MIN, BPMP_MAX, BPMP_RATE, BPMP_LOCKED, BWMGR_MIN,
               BWMGR_MAX, BWMGR_EMC_MIN, BWMGR_EMC_MAX, OVR_RATE, OVR_STATE}
AuxPaths   == {QOS, CC3_M, CC3_B}
CpuPaths   == {CpuPath(i, l) : i \in CpuIds, l \in CpuLeaves}

(* The files an operation of the library steers the board through; the     *)
(* empty path is the one the unfinished GPU getters resolve to.            *)
ControlPaths == FanPaths \cup GpuPaths \cup EmcPaths \cup AuxPaths \cup CpuPaths
Paths == IdentPaths \cup ControlPaths \cup {""}

-----------------------------------------------------------------------------
(* The file-system accessors.  A world is what a call sees and leaves:     *)
(*   fs   the files                                                        *)
(*   rd   the paths whose content was read                                 *)
(*   wo   the paths opened in write mode, in order                         *)
(*   wr   the <<path, string>> pairs written, in order                     *)
(*   at   the paths write_file was called on, in order, whatever it        *)
(*        returned                                                         *)
(*   out  the messages printed on std::cout, by kind, in order             *)
(*   fds  FILE handles opened by fopen and never closed                    *)

NoFile == [ex |-> FALSE, wr |-> FALSE, data |-> <<>>]
File(data) == [ex |-> TRUE, wr |-> TRUE, data |-> data]

World(f, n) ==
    [fs |-> f, rd |-> {}, wo |-> <<>>, wr |-> <<>>, at |-> <<>>, out |-> <<>>,
     fds |-> n]

(* The process holds as many handles as it may: every open fails.          *)
Exhausted(w) == w.fds >= limit

(* std::ifstream f(name); return f.good();                                 *)
file_exists(w, name) == ~Exhausted(w) /\ w.fs[name].ex

(* An fopen(name, "w") whose FILE is closed again.  Not the code's; the    *)
(* growth of the number of handles rests on the difference.                *)
fopen_w_closed(w, name) ==
    IF ~Exhausted(w) /\ w.fs[name].wr
    THEN [w   |-> [w EXCEPT !.fs[name] = File(<<>>),
                            !.wo = Append(@, name)],
          ret |-> TRUE]
    ELSE [w |-> w, ret |-> FALSE]

(* fopen(name, "w"): truncates the file, or creates it; the FILE is never  *)
(* closed.  [w, ret]                                                       *)
fopen_w(w, name) ==
    IF ~Exhausted(w) /\ w.fs[name].wr
    THEN [w   |-> [w EXCEPT !.fs[name] = File(<<>>),
                            !.wo = Append(@, name),
                            !.fds = @ + 1],
          ret |-> TRUE]
    ELSE [w |-> w, ret |-> FALSE]

(* file_writable of the "bool" and "throw" copies: existence, then fopen.  *)
file_writable(w, name) ==
    IF ~file_exists(w, name) THEN [w |-> w, ret |-> FALSE]
    ELSE fopen_w(w, name)

(* file_writable of the "legacy" copy: fopen alone.                        *)
file_writable_legacy(w, name) == fopen_w(w, name)

(* std::ifstream t(name); buffer << t.rdbuf(); "" when it cannot be opened *)
read_file(w, name) ==
    [w   |-> [w EXCEPT !.rd = @ \cup {name}],
     ret |-> IF ~Exhausted(w) /\ w.fs[name].ex THEN w.fs[name].data ELSE <<>>]

(* std::ofstream out(name); out << str; nothing is written when the open   *)
(* fails.                                                                  *)
ofstream_write(w, name, str) ==
    IF Exhausted(w) THEN w
    ELSE [w EXCEPT !.fs[name] = File(str),
                   !.wo = Append(@, name),
                   !.wr = Append(@, <<name, str>>)]

(* A write_file that opens in append mode: what the file held stays in     *)
(* front of str.  Not the code's; the idempotence of the setters rests on  *)
(* the difference.                                                         *)
write_file_appending(probe, w, name, str) ==
    IF ~w.fs[name].ex \/ ~w.fs[name].wr
    THEN [w |-> [w EXCEPT !.at = Append(@, name)], ret |-> FALSE]
    ELSE [w   |-> [w EXCEPT !.fs[name] = File(@.data \o str),
                            !.wo = Append(@, name),
                            !.wr = Append(@, <<name, str>>),
                            !.at = Append(@, name)],
          ret |-> TRUE]

write_file_with(probe, w, name, str) ==
    IF ~probe.ret
    THEN [w |-> [probe.w EXCEPT !.at = Append(@, name)], ret |-> FALSE]
    ELSE [w   |-> [ofstream_write(probe.w, name, str) EXCEPT !.at = Append(@, name)],
          ret |-> TRUE]

write_file(w, name, str) == write_file_with(file_writable(w, name), w, name, str)

write_file_legacy(w, name, str) ==
    write_file_with(file_writable_legacy(w, name), w, name, str)

(* std::cout << message                                                    *)
Say(w, kind) == [w EXCEPT !.out = Append(@, kind)]

-----------------------------------------------------------------------------
(* How a call ends: [w, ret, exc, err].  exc is "" or the C++ exception    *)
(* that left the call; err is "" or the kind of failure the call names, in *)
(* the message of its exception or in the line it prints before returning. *)

Ret(w, v)        == [w |-> w, ret |-> v, exc |-> "", err |-> ""]
Fail(w, v, kind) == [w |-> Say(w, kind), ret |-> v, exc |-> "", err |-> kind]
Throw(w, kind)   == [w |-> w, ret |-> "none", exc |-> "JetsonClocksException", err |-> kind]
StdThrow(w, e)   == [w |-> w, ret |-> "none", exc |-> e, err |-> "parse"]

(* A step's result named for the steps that follow it.                     *)
Bind(r, k(_)) == k(r)

running_as_root == root

(* std::stoi(read_file(name)), returned as a long int.                     *)
read_long(w, name) ==
    Bind(read_file(w, name), LAMBDA r :
    Bind(stoi(r.ret), LAMBDA n :
    IF n.exc # "" THEN StdThrow(r.w, n.exc) ELSE Ret(r.w, n.val)))

(* The int of std::stoi converted to unsigned char.                        *)
AsUChar(v) == v % UCHAR_MOD

(* std::stoi(read_file(name)), returned as an unsigned char.               *)
read_uchar(w, name) ==
    Bind(read_long(w, name), LAMBDA r :
    IF r.exc # "" THEN r ELSE Ret(r.w, AsUChar(r.ret)))

-----------------------------------------------------------------------------
(* Board discovery.                                                        *)

Str(atom) == <<atom>>

compatible_family(compat_file, known) ==
    IF known = <<>> THEN <<>>
    ELSE LET hit == {i \in 1..Len(known) : Find(compat_file, Str("nvidia," \o known[i]))}
         IN  IF hit = {} THEN <<>>
             ELSE Str(known[CHOOSE i \in hit : \A j \in hit : i <= j])

soc_family_from(w, known, absent) ==
    IF file_exists(w, FAMILY) THEN
        Bind(read_file(w, FAMILY), LAMBDA r : Ret(r.w, r.ret))
    ELSE IF file_exists(w, COMPAT) THEN
        Bind(read_file(w, COMPAT), LAMBDA r : Ret(r.w, compatible_family(r.ret, known)))
    ELSE absent

get_soc_family_bool(w)   == soc_family_from(w, <<"tegra210", "tegra186">>, Ret(w, <<>>))
get_soc_family_legacy(w) == soc_family_from(w, <<"tegra210", "tegra186">>, Ret(w, <<>>))
get_soc_family_throw(w)  ==
    soc_family_from(w, <<"tegra210", "tegra186", "tegra194">>, Throw(w, "no_family"))

machine_from(w, absent) ==
    IF file_exists(w, FAMILY) THEN
        IF file_exists(w, MACHINE)
        THEN Bind(read_file(w, MACHINE), LAMBDA r : Ret(r.w, r.ret))
        ELSE Ret(w, <<>>)
    ELSE IF file_exists(w, MODEL) THEN
        Bind(read_file(w, MODEL), LAMBDA r : Ret(r.w, r.ret))
    ELSE absent

get_machine_bool(w)   == machine_from(w, Ret(w, <<>>))
get_machine_legacy(w) == machine_from(w, Ret(w, <<>>))
get_machine_throw(w)  == machine_from(w, Throw(w, "no_machine"))

get_soc_family(v, w) ==
    CASE v = "bool"   -> get_soc_family_bool(w)
      [] v = "throw"  -> get_soc_family_throw(w)
      [] v = "legacy" -> get_soc_family_legacy(w)

get_machine(v, w) ==
    CASE v = "bool"   -> get_machine_bool(w)
      [] v = "throw"  -> get_machine_throw(w)
      [] v = "legacy" -> get_machine_legacy(w)

-----------------------------------------------------------------------------
(* Fan.                                                                    *)

TK1 == Str("jetson-tk1")

set_fan_speed_bool(w, speed) ==
    IF ~running_as_root THEN Fail(w, FALSE, "privilege")
    ELSE Bind(get_machine_bool(w), LAMBDA m :
    IF m.ret = TK1 THEN Ret(m.w, TRUE)
    ELSE Bind(file_writable(m.w, FAN_DEBUG), LAMBDA p :
    IF ~p.ret THEN Fail(p.w, FALSE, "resource")
    ELSE Bind(write_file(p.w, FAN_DEBUG, to_string(speed)), LAMBDA o : Ret(o.w, o.ret))))

get_fan_speed_bool(w) ==
    IF ~running_as_root THEN Fail(w, 0, "privilege")
    ELSE Bind(get_machine_bool(w), LAMBDA m :
    IF m.ret = TK1 THEN Ret(m.w, 255)
    ELSE IF ~file_exists(m.w, FAN_DEBUG) THEN Fail(m.w, 0, "resource")
    ELSE read_uchar(m.w, FAN_DEBUG))

(* The file the "throw" copy picks for the fan: [w, ret, exc, err], ret    *)
(* the path.                                                               *)
fan_path_throw(w) ==
    Bind(file_writable(w, FAN_DEBUG), LAMBDA a :
    IF a.ret THEN Ret(a.w, FAN_DEBUG)
    ELSE Bind(file_writable(a.w, FAN_PWM), LAMBDA b :
    IF b.ret THEN Ret(b.w, FAN_PWM)
    ELSE Throw(b.w, "resource")))

(* A set_fan_speed that picks the fan file before it looks at the machine: *)
(* not the code's order.                                                   *)
set_fan_speed_probing(w, speed) ==
    IF ~running_as_root THEN Throw(w, "privilege")
    ELSE Bind(fan_path_throw(w), LAMBDA p :
    IF p.exc # "" THEN p
    ELSE Bind(get_machine_throw(p.w), LAMBDA m :
    IF m.exc # "" THEN m
    ELSE IF m.ret = TK1 THEN Ret(m.w, "void")
    ELSE Bind(write_file(m.w, p.ret, to_string(speed)), LAMBDA o : Ret(o.w, "void"))))

set_fan_speed_throw(w, speed) ==
    IF ~running_as_root THEN Throw(w, "privilege")
    ELSE Bind(get_machine_throw(w), LAMBDA m :
    IF m.exc # "" THEN m
    ELSE IF m.ret = TK1 THEN Ret(m.w, "void")
    ELSE Bind(fan_path_throw(m.w), LAMBDA p :
    IF p.exc # "" THEN p
    ELSE Bind(write_file(p.w, p.ret, to_string(speed)), LAMBDA o : Ret(o.w, "void"))))

get_fan_speed_throw(w) ==
    IF ~running_as_root THEN Throw(w, "privilege")
    ELSE Bind(get_machine_throw(w), LAMBDA m :
    IF m.exc # "" THEN m
    ELSE IF m.ret = TK1 THEN Ret(m.w, 255)
    ELSE Bind(fan_path_throw(m.w), LAMBDA p :
    IF p.exc # "" THEN p
    ELSE read_uchar(p.w, p.ret)))

set_fan_speed_legacy(w, speed) ==
    Bind(get_machine_legacy(w), LAMBDA m :
    IF m.ret = TK1 THEN Ret(m.w, TRUE)
    ELSE Bind(file_writable_legacy(m.w, FAN_DEBUG), LAMBDA p :
    IF ~p.ret THEN Fail(p.w, FALSE, "resource")
    ELSE Bind(write_file_legacy(p.w, FAN_DEBUG, to_string(speed)), LAMBDA o : Ret(o.w, o.ret))))

set_fan_speed(v, w, speed) ==
    CASE v = "bool"   -> set_fan_speed_bool(w, speed)
      [] v = "throw"  -> set_fan_speed_throw(w, speed)
      [] v = "legacy" -> set_fan_speed_legacy(w, speed)

get_fan_speed(v, w) ==
    CASE v = "bool"  -> get_fan_speed_bool(w)
      [] v = "throw" -> get_fan_speed_throw(w)

-----------------------------------------------------------------------------
(* GPU.                                                                    *)

(* The devfreq directory of the GPU of a family, "" when the copy has no   *)
(* branch for the family.                                                  *)
gpu_dir_bool(soc_family) ==
    CASE soc_family = Str("tegra186") -> GP10B
      [] soc_family = Str("tegra210") -> GM20B
      [] OTHER -> ""

gpu_dir_throw(soc_family) ==
    CASE soc_family = Str("tegra186") -> GP10B
      [] soc_family = Str("tegra210") -> GM20B
      [] soc_family = Str("tegra194") -> GV11B
      [] OTHER -> ""

read_sorted_longs(w, name) ==
    Bind(read_file(w, name), LAMBDA r : Ret(r.w, Sort(ReadLongs(r.ret))))

get_gpu_available_freqs_bool(w) ==
    IF ~running_as_root THEN Fail(w, <<>>, "privilege")
    ELSE Bind(get_soc_family_bool(w), LAMBDA f :
    Bind(gpu_dir_bool(f.ret), LAMBDA d :
    IF d = "" THEN Fail(f.w, <<>>, "unsupported")
    ELSE read_sorted_longs(f.w, d \o "available_frequencies")))

get_gpu_available_freqs_throw(w) ==
    IF ~running_as_root THEN Throw(w, "privilege")
    ELSE Bind(get_soc_family_throw(w), LAMBDA f :
    IF f.exc # "" THEN f
    ELSE Bind(gpu_dir_throw(f.ret), LAMBDA d :
    IF d = "" THEN Throw(f.w, "unsupported")
    ELSE read_sorted_longs(f.w, d \o "available_frequencies")))

(* The three writes that end set_gpu_freq_range: [w, ret], ret the         *)
(* conjunction of the three results.                                       *)
gpu_range_writes(w, d, min_freq, max_freq) ==
    Bind(write_file(w, d \o "min_freq", to_string(min_freq)), LAMBDA a :
    Bind(write_file(a.w, d \o "max_freq", to_string(max_freq)), LAMBDA b :
    Bind(write_file(b.w, d \o "device/railgate_enable", Str("0")), LAMBDA c :
    [w |-> c.w, ret |-> a.ret /\ b.ret /\ c.ret])))

(* A set_gpu_freq_range that writes min_freq as soon as min_freq is found  *)
(* legal, before it looks at max_freq: not the code's order.               *)
set_gpu_freq_range_eager(w, min_freq, max_freq) ==
    IF ~running_as_root THEN Fail(w, FALSE, "privilege")
    ELSE Bind(get_gpu_available_freqs_bool(w), LAMBDA a :
    IF ~Member(min_freq, a.ret) THEN Fail(a.w, FALSE, "not_available")
    ELSE Bind(get_soc_family_bool(a.w), LAMBDA f :
    Bind(gpu_dir_bool(f.ret), LAMBDA d :
    IF d = "" THEN Fail(f.w, FALSE, "unsupported")
    ELSE Bind(write_file(f.w, d \o "min_freq", to_string(min_freq)), LAMBDA lo :
    IF ~Member(max_freq, a.ret) THEN Fail(lo.w, FALSE, "not_available")
    ELSE Bind(gpu_range_writes(lo.w, d, min_freq, max_freq), LAMBDA o :
    Ret(o.w, o.ret))))))

set_gpu_freq_range_bool(w, min_freq, max_freq) ==
    IF ~running_as_root THEN Fail(w, FALSE, "privilege")
    ELSE Bind(get_gpu_available_freqs_bool(w), LAMBDA a :
    IF ~Member(min_freq, a.ret) THEN Fail(a.w, FALSE, "not_available")
    ELSE IF ~Member(max_freq, a.ret) THEN Fail(a.w, FALSE, "not_available")
    ELSE Bind(get_soc_family_bool(a.w), LAMBDA f :
    Bind(gpu_dir_bool(f.ret), LAMBDA d :
    IF d = "" THEN Fail(f.w, FALSE, "unsupported")
    ELSE Bind(gpu_range_writes(f.w, d, min_freq, max_freq), LAMBDA o : Ret(o.w, o.ret)))))

(* A set_gpu_freq_range that refuses a range whose ends are out of order.  *)
(* Not the code's, which looks the two values up and no more.              *)
set_gpu_freq_range_ordered(w, min_freq, max_freq) ==
    IF ~running_as_root THEN Throw(w, "privilege")
    ELSE Bind(get_gpu_available_freqs_throw(w), LAMBDA a :
    IF a.exc # "" THEN a
    ELSE IF ~Member(min_freq, a.ret) THEN Throw(a.w, "not_available")
    ELSE IF ~Member(max_freq, a.ret) THEN Throw(a.w, "not_available")
    ELSE IF min_freq > max_freq THEN Throw(a.w, "not_available")
    ELSE Bind(get_soc_family_throw(a.w), LAMBDA f :
    IF f.exc # "" THEN f
    ELSE Bind(gpu_dir_throw(f.ret), LAMBDA d :
    IF d = "" THEN Throw(f.w, "unsupported")
    ELSE Bind(gpu_range_writes(f.w, d, min_freq, max_freq), LAMBDA o : Ret(o.w, "void")))))

set_gpu_freq_range_throw(w, min_freq, max_freq) ==
    IF ~running_as_root THEN Throw(w, "privilege")
    ELSE Bind(get_gpu_available_freqs_throw(w), LAMBDA a :
    IF a.exc # "" THEN a
    ELSE IF ~Member(min_freq, a.ret) THEN Throw(a.w, "not_available")
    ELSE IF ~Member(max_freq, a.ret) THEN Throw(a.w, "not_available")
    ELSE Bind(get_soc_family_throw(a.w), LAMBDA f :
    IF f.exc # "" THEN f
    ELSE Bind(gpu_dir_throw(f.ret), LAMBDA d :
    IF d = "" THEN Throw(f.w, "unsupported")
    ELSE Bind(gpu_range_writes(f.w, d, min_freq, max_freq), LAMBDA o : Ret(o.w, "void")))))

(* get_gpu_cur_freq, get_gpu_min_freq, get_gpu_max_freq of the "throw"     *)
(* copy: PATH is filled in for tegra194 alone.                             *)
gpu_scalar_path(soc_family, leaf) ==
    CASE soc_family = Str("tegra186") -> [known |-> TRUE, path |-> ""]
      [] soc_family = Str("tegra210") -> [known |-> TRUE, path |-> ""]
      [] soc_family = Str("tegra194") -> [known |-> TRUE, path |-> GV11B \o leaf]
      [] OTHER -> [known |-> FALSE, path |-> ""]

get_gpu_scalar_throw(w, leaf) ==
    IF ~running_as_root THEN Throw(w, "privilege")
    ELSE Bind(get_soc_family_throw(w), LAMBDA f :
    IF f.exc # "" THEN f
    ELSE Bind(gpu_scalar_path(f.ret, leaf), LAMBDA p :
    IF ~p.known THEN Throw(f.w, "unsupported")
    ELSE IF ~file_exists(f.w, p.path) THEN Throw(f.w, "resource")
    ELSE read_long(f.w, p.path)))

get_gpu_cur_freq(w) == get_gpu_scalar_throw(w, "cur_freq")
get_gpu_min_freq(w) == get_gpu_scalar_throw(w, "min_freq")
get_gpu_max_freq(w) == get_gpu_scalar_throw(w, "max_freq")

get_gpu_current_usage(w) ==
    Bind(get_soc_family_throw(w), LAMBDA f :
    IF f.exc # "" THEN f
    ELSE IF f.ret # Str("tegra210") THEN Throw(f.w, "unsupported")
    ELSE read_long(f.w, GPU_LOAD))

get_gpu_available_freqs(v, w) ==
    CASE v = "bool"  -> get_gpu_available_freqs_bool(w)
      [] v = "throw" -> get_gpu_available_freqs_throw(w)

set_gpu_freq_range(v, w, min_freq, max_freq) ==
    CASE v = "bool"  -> set_gpu_freq_range_bool(w, min_freq, max_freq)
      [] v = "throw" -> set_gpu_freq_range_throw(w, min_freq, max_freq)

-----------------------------------------------------------------------------
(* EMC.                                                                    *)

(* The min and max files of the EMC clock: [known, cap, min, max].  cap    *)
(* tells whether the family has the iso-cap file.                          *)
emc_range_paths_bool(soc_family) ==
    CASE soc_family = Str("tegra186") ->
            [known |-> TRUE, cap |-> TRUE, min |-> BPMP_MIN, max |-> BPMP_MAX]
      [] soc_family = Str("tegra210") ->
            [known |-> TRUE, cap |-> FALSE, min |-> BWMGR_MIN, max |-> BWMGR_MAX]
      [] OTHER -> [known |-> FALSE, cap |-> FALSE, min |-> "", max |-> ""]

emc_range_paths_throw(soc_family) ==
    CASE soc_family \in {Str("tegra186"), Str("tegra194")} ->
            [known |-> TRUE, cap |-> TRUE, min |-> BPMP_MIN, max |-> BPMP_MAX]
      [] soc_family = Str("tegra210") ->
            [known |-> TRUE, cap |-> FALSE, min |-> BWMGR_EMC_MIN, max |-> BWMGR_EMC_MAX]
      [] OTHER -> [known |-> FALSE, cap |-> FALSE, min |-> "", max |-> ""]

(* The body both copies share once the paths are known: the cap replaces   *)
(* the max file when 0 < cap < max, then min and max are read.             *)
emc_read_range(w, p) ==
    Bind(IF p.cap THEN read_long(w, EMC_CAP) ELSE Ret(w, 0), LAMBDA cap :
    IF cap.exc # "" THEN cap ELSE
    Bind(IF p.cap THEN read_long(cap.w, p.max) ELSE Ret(cap.w, 0), LAMBDA fmax :
    IF fmax.exc # "" THEN fmax ELSE
    Bind(read_long(fmax.w, p.min), LAMBDA lo :
    IF lo.exc # "" THEN lo ELSE
    Bind(read_long(lo.w, IF p.cap /\ cap.ret > 0 /\ cap.ret < fmax.ret
                        THEN EMC_CAP ELSE p.max), LAMBDA hi :
    IF hi.exc # "" THEN hi
    ELSE Ret(hi.w, <<lo.ret, hi.ret>>)))))

get_emc_available_freq_range(w) ==
    IF ~running_as_root THEN Fail(w, <<0, 0>>, "privilege")
    ELSE Bind(get_soc_family_bool(w), LAMBDA f :
    Bind(emc_range_paths_bool(f.ret), LAMBDA p :
    IF ~p.known THEN Fail(f.w, <<0, 0>>, "unsupported")
    ELSE emc_read_range(f.w, p)))

get_emc_available_freqs(w) ==
    IF ~running_as_root THEN Throw(w, "privilege")
    ELSE Bind(get_soc_family_throw(w), LAMBDA f :
    IF f.exc # "" THEN f
    ELSE Bind(emc_range_paths_throw(f.ret), LAMBDA p :
    IF ~p.known THEN Throw(f.w, "unsupported")
    ELSE emc_read_range(f.w, p)))

(* The rate and override files: [known, rate, ovr].                        *)
emc_rate_paths(soc_family, bpmp) ==
    CASE soc_family \in bpmp ->
            [known |-> TRUE, rate |-> BPMP_RATE, ovr |-> BPMP_LOCKED]
      [] soc_family = Str("tegra210") ->
            [known |-> TRUE, rate |-> OVR_RATE, ovr |-> OVR_STATE]
      [] OTHER -> [known |-> FALSE, rate |-> "", ovr |-> ""]

get_emc_freq_bool(w) ==
    IF ~running_as_root THEN Fail(w, 0, "privilege")
    ELSE Bind(get_soc_family_bool(w), LAMBDA f :
    Bind(emc_rate_paths(f.ret, {Str("tegra186")}), LAMBDA p :
    IF ~p.known THEN Fail(f.w, 0, "unsupported")
    ELSE read_long(f.w, p.rate)))

get_emc_freq_throw(w) ==
    IF ~running_as_root THEN Throw(w, "privilege")
    ELSE Bind(get_soc_family_throw(w), LAMBDA f :
    IF f.exc # "" THEN f
    ELSE Bind(emc_rate_paths(f.ret, {Str("tegra186"), Str("tagra194")}), LAMBDA p :
    IF ~p.known THEN Throw(f.w, "unsupported")
    ELSE read_long(f.w, p.rate)))

emc_writes(w, p, freq) ==
    Bind(write_file(w, p.rate, to_string(freq)), LAMBDA a :
    Bind(write_file(a.w, p.ovr, Str("1")), LAMBDA b :
    [w |-> b.w, ret |-> a.ret /\ b.ret]))

set_emc_freq_bool(w, freq) ==
    IF ~running_as_root THEN Fail(w, FALSE, "privilege")
    ELSE Bind(get_emc_available_freq_range(w), LAMBDA r :
    IF r.exc # "" THEN r
    ELSE IF freq < r.ret[1] \/ freq > r.ret[2] THEN Fail(r.w, FALSE, "not_available")
    ELSE Bind(get_soc_family_bool(r.w), LAMBDA f :
    Bind(emc_rate_paths(f.ret, {Str("tegra186")}), LAMBDA p :
    IF ~p.known THEN Fail(f.w, FALSE, "unsupported")
    ELSE Bind(emc_writes(f.w, p, freq), LAMBDA o : Ret(o.w, TRUE)))))

(* A set_emc_freq that checks freq against the lower end alone: not the    *)
(* code's test.                                                            *)
set_emc_freq_unbounded(w, freq) ==
    IF ~running_as_root THEN Throw(w, "privilege")
    ELSE Bind(get_emc_available_freqs(w), LAMBDA r :
    IF r.exc # "" THEN r
    ELSE IF freq < r.ret[1] THEN Throw(r.w, "not_available")
    ELSE Bind(get_soc_family_throw(r.w), LAMBDA f :
    IF f.exc # "" THEN f
    ELSE Bind(emc_rate_paths(f.ret, {Str("tegra186"), Str("tegra194")}), LAMBDA p :
    IF ~p.known THEN Throw(f.w, "unsupported")
    ELSE Bind(emc_writes(f.w, p, freq), LAMBDA o : Ret(o.w, "void")))))

set_emc_freq_throw(w, freq) ==
    IF ~running_as_root THEN Throw(w, "privilege")
    ELSE Bind(get_emc_available_freqs(w), LAMBDA r :
    IF r.exc # "" THEN r
    ELSE IF freq < r.ret[1] \/ freq > r.ret[Len(r.ret)] THEN Throw(r.w, "not_available")
    ELSE Bind(get_soc_family_throw(r.w), LAMBDA f :
    IF f.exc # "" THEN f
    ELSE Bind(emc_rate_paths(f.ret, {Str("tegra186"), Str("tegra194")}), LAMBDA p :
    IF ~p.known THEN Throw(f.w, "unsupported")
    ELSE Bind(emc_writes(f.w, p, freq), LAMBDA o : Ret(o.w, "void")))))

get_emc_available(v, w) ==
    CASE v = "bool"  -> get_emc_available_freq_range(w)
      [] v = "throw" -> get_emc_available_freqs(w)

get_emc_freq(v, w) ==
    CASE v = "bool"  -> get_emc_freq_bool(w)
      [] v = "throw" -> get_emc_freq_throw(w)

set_emc_freq(v, w, freq) ==
    CASE v = "bool"  -> set_emc_freq_bool(w, freq)
      [] v = "throw" -> set_emc_freq_throw(w, freq)

-----------------------------------------------------------------------------
(* CPU.                                                                    *)

(* list_subdirs(path): the names of the entries that are directories, in   *)
(* readdir order; nothing when the directory cannot be opened.             *)
RECURSIVE DirNames(_)
DirNames(es) ==
    IF es = <<>> THEN <<>>
    ELSE IF Head(es).dir THEN <<Head(es).name>> \o DirNames(Tail(es))
    ELSE DirNames(Tail(es))

list_subdirs(w, d) == IF Exhausted(w) \/ ~d.open THEN <<>> ELSE DirNames(d.names)

\* std::regex_match(str, reg): any prefix, then cpu, then one digit.
MatchesCpu(name) ==
    Len(name) >= 2 /\ name[Len(name) - 1] = "cpu" /\ IsDigit(name[Len(name)])

RECURSIVE CpuIdsOf(_)
CpuIdsOf(names) ==
    IF names = <<>> THEN <<>>
    ELSE IF MatchesCpu(Head(names))
         THEN <<DigitVal(Head(names)[Len(Head(names))])>> \o CpuIdsOf(Tail(names))
    ELSE CpuIdsOf(Tail(names))

get_cpu_ids_bool(w, d) ==
    IF ~running_as_root THEN Fail(w, <<>>, "privilege")
    ELSE Ret(w, Sort(CpuIdsOf(list_subdirs(w, d))))

get_cpu_ids_throw(w, d) ==
    IF ~running_as_root THEN Throw(w, "privilege")
    ELSE Ret(w, Sort(CpuIdsOf(list_subdirs(w, d))))

get_cpu_available_freqs_bool(w, cpu_id) ==
    IF ~running_as_root THEN Fail(w, <<>>, "privilege")
    ELSE Bind(CpuPath(cpu_id, "scaling_available_frequencies"), LAMBDA path :
    IF ~file_exists(w, path) THEN Fail(w, <<>>, "resource")
    ELSE Bind(read_file(w, path), LAMBDA r :
    Bind(ReadLongs(r.ret), LAMBDA speeds :
    IF Len(speeds) = 0 THEN Fail(r.w, <<>>, "not_found")
    ELSE Ret(r.w, Sort(speeds)))))

get_cpu_available_freqs_throw(w, cpu_id) ==
    IF ~running_as_root THEN Throw(w, "privilege")
    ELSE Bind(CpuPath(cpu_id, "scaling_available_frequencies"), LAMBDA path :
    IF ~file_exists(w, path) THEN Throw(w, "resource")
    ELSE read_sorted_longs(w, path))

get_cpu_available_governors_bool(w, cpu_id) ==
    IF ~running_as_root THEN Fail(w, <<>>, "privilege")
    ELSE Bind(CpuPath(cpu_id, "scaling_available_governors"), LAMBDA path :
    IF ~file_exists(w, path) THEN Fail(w, <<>>, "resource")
    ELSE Bind(read_file(w, path), LAMBDA r : Ret(r.w, Words(strip_newline(r.ret)))))

get_cpu_available_governors_throw(w, cpu_id) ==
    IF ~running_as_root THEN Throw(w, "privilege")
    ELSE Bind(CpuPath(cpu_id, "scaling_available_governors"), LAMBDA path :
    IF ~file_exists(w, path) THEN Throw(w, "resource")
    ELSE Bind(read_file(w, path), LAMBDA r : Ret(r.w, Words(strip_newline(r.ret)))))

get_cpu_governor_bool(w, cpu_id) ==
    IF ~running_as_root THEN Fail(w, <<>>, "privilege")
    ELSE Bind(CpuPath(cpu_id, "scaling_governor"), LAMBDA path :
    IF ~file_exists(w, path) THEN Fail(w, <<>>, "resource")
    ELSE Bind(read_file(w, path), LAMBDA r : Ret(r.w, strip_newline(r.ret))))

get_cpu_governor_throw(w, cpu_id) ==
    IF ~running_as_root THEN Throw(w, "privilege")
    ELSE Bind(CpuPath(cpu_id, "scaling_governor"), LAMBDA path :
    IF ~file_exists(w, path) THEN Throw(w, "resource")
    ELSE Bind(read_file(w, path), LAMBDA r : Ret(r.w, strip_newline(r.ret))))

(* get_cpu_min_freq, get_cpu_max_freq, get_cpu_cur_freq differ in the leaf *)
(* they read.                                                              *)
get_cpu_freq_bool(w, cpu_id, leaf) ==
    IF ~running_as_root THEN Fail(w, 0, "privilege")
    ELSE Bind(CpuPath(cpu_id, leaf), LAMBDA path :
    IF ~file_exists(w, path) THEN Fail(w, 0, "resource")
    ELSE read_long(w, path))

get_cpu_freq_throw(w, cpu_id, leaf) ==
    IF ~running_as_root THEN Throw(w, "privilege")
    ELSE Bind(CpuPath(cpu_id, leaf), LAMBDA path :
    IF ~file_exists(w, path) THEN Throw(w, "resource")
    ELSE read_long(w, path))

(* The writes of a CPU setter that puts the QoS file back as it was when   *)
(* the write of the target fails.  Not the code's: no setter undoes a      *)
(* write.                                                                  *)
cpu_writes_undoing(w, v, path, str) ==
    Bind(write_file(w, QOS, Str("0")), LAMBDA q :
    Bind(get_soc_family(v, q.w), LAMBDA g :
    IF g.exc # "" THEN g
    ELSE Bind(IF g.ret = Str("tegra186")
              THEN write_file(write_file(g.w, CC3_M, Str("0")).w, CC3_B, Str("0"))
              ELSE [w |-> g.w, ret |-> TRUE], LAMBDA b :
    Bind(write_file(b.w, path, str), LAMBDA t :
    IF t.ret THEN Ret(t.w, q.ret /\ b.ret)
    ELSE Ret(write_file(t.w, QOS, w.fs[QOS].data).w, FALSE)))))

(* The writes that end a CPU setter: QoS, the cc3 files on tegra186, then  *)
(* the target.  v is the copy the setter belongs to.                       *)
cpu_writes(w, v, path, str) ==
    Bind(write_file(w, QOS, Str("0")), LAMBDA q :
    Bind(get_soc_family(v, q.w), LAMBDA g :
    IF g.exc # "" THEN g
    ELSE IF g.ret = Str("tegra186") THEN
        Bind(write_file(g.w, CC3_M, Str("0")), LAMBDA m :
        Bind(write_file(m.w, CC3_B, Str("0")), LAMBDA b :
        Bind(write_file(b.w, path, str), LAMBDA t :
        Ret(t.w, q.ret /\ m.ret /\ b.ret /\ t.ret))))
    ELSE Bind(write_file(g.w, path, str), LAMBDA t : Ret(t.w, q.ret /\ t.ret))))

(* set_cpu_min_freq and set_cpu_max_freq differ in the leaf they write.    *)
set_cpu_freq_bool(w, cpu_id, freq, leaf) ==
    IF ~running_as_root THEN Fail(w, FALSE, "privilege")
    ELSE Bind(CpuPath(cpu_id, leaf), LAMBDA path :
    Bind(file_writable(w, path), LAMBDA p :
    IF ~p.ret THEN Fail(p.w, FALSE, "resource")
    ELSE Bind(get_cpu_available_freqs_bool(p.w, cpu_id), LAMBDA a :
    IF Len(a.ret) = 0 THEN Fail(a.w, FALSE, "not_found")
    ELSE IF ~Member(freq, a.ret) THEN Fail(a.w, FALSE, "not_available")
    ELSE Bind(cpu_writes(a.w, "bool", path, to_string(freq)), LAMBDA o :
    Ret(o.w, TRUE)))))

set_cpu_freq_throw(w, cpu_id, freq, leaf) ==
    IF ~running_as_root THEN Throw(w, "privilege")
    ELSE Bind(CpuPath(cpu_id, leaf), LAMBDA path :
    Bind(file_writable(w, path), LAMBDA p :
    IF ~p.ret THEN Throw(p.w, "resource")
    ELSE Bind(get_cpu_available_freqs_throw(p.w, cpu_id), LAMBDA a :
    IF a.exc # "" THEN a
    ELSE IF ~Member(freq, a.ret) THEN Throw(a.w, "not_available")
    ELSE Bind(cpu_writes(a.w, "throw", path, to_string(freq)), LAMBDA o :
    IF o.exc # "" THEN o ELSE Ret(o.w, "void")))))

set_cpu_governor_bool(w, cpu_id, governor) ==
    IF ~running_as_root THEN Fail(w, FALSE, "privilege")
    ELSE Bind(CpuPath(cpu_id, "scaling_governor"), LAMBDA path :
    IF ~file_exists(w, path) THEN Fail(w, FALSE, "resource")
    ELSE Bind(get_cpu_available_governors_bool(w, cpu_id), LAMBDA a :
    IF Len(a.ret) = 0 THEN Fail(a.w, FALSE, "not_found")
    ELSE IF ~Member(governor, a.ret) THEN Fail(a.w, FALSE, "not_available")
    ELSE Bind(cpu_writes(a.w, "bool", path, governor), LAMBDA o :
    Ret(o.w, TRUE))))

set_cpu_governor_throw(w, cpu_id, governor) ==
    IF ~running_as_root THEN Throw(w, "privilege")
    ELSE Bind(CpuPath(cpu_id, "scaling_governor"), LAMBDA path :
    IF ~file_exists(w, path) THEN Throw(w, "resource")
    ELSE Bind(get_cpu_available_governors_throw(w, cpu_id), LAMBDA a :
    IF a.exc # "" THEN a
    ELSE IF ~Member(governor, a.ret) THEN Throw(a.w, "not_available")
    ELSE Bind(cpu_writes(a.w, "throw", path, governor), LAMBDA o :
    IF o.exc # "" THEN o ELSE Ret(o.w, "void"))))

get_cpu_ids(v, w, d) ==
    CASE v = "bool"  -> get_cpu_ids_bool(w, d)
      [] v = "throw" -> get_cpu_ids_throw(w, d)

get_cpu_available_freqs(v, w, cpu_id) ==
    CASE v = "bool"  -> get_cpu_available_freqs_bool(w, cpu_id)
      [] v = "throw" -> get_cpu_available_freqs_throw(w, cpu_id)

get_cpu_available_governors(v, w, cpu_id) ==
    CASE v = "bool"  -> get_cpu_available_governors_bool(w, cpu_id)
      [] v = "throw" -> get_cpu_available_governors_throw(w, cpu_id)

get_cpu_governor(v, w, cpu_id) ==
    CASE v = "bool"  -> get_cpu_governor_bool(w, cpu_id)
      [] v = "throw" -> get_cpu_governor_throw(w, cpu_id)

get_cpu_freq(v, w, cpu_id, leaf) ==
    CASE v = "bool"  -> get_cpu_freq_bool(w, cpu_id, leaf)
      [] v = "throw" -> get_cpu_freq_throw(w, cpu_id, leaf)

set_cpu_freq(v, w, cpu_id, freq, leaf) ==
    CASE v = "bool"  -> set_cpu_freq_bool(w, cpu_id, freq, leaf)
      [] v = "throw" -> set_cpu_freq_throw(w, cpu_id, freq, leaf)

set_cpu_governor(v, w, cpu_id, governor) ==
    CASE v = "bool"  -> set_cpu_governor_bool(w, cpu_id, governor)
      [] v = "throw" -> set_cpu_governor_throw(w, cpu_id, governor)

-----------------------------------------------------------------------------
(* File systems the process may start on.                                  *)

RECURSIVE Line(_)
(* The text of a sysfs attribute holding the numbers ns.                   *)
Line(ns) ==
    IF ns = <<>> THEN <<NL>>
    ELSE IF Len(ns) = 1 THEN to_string(Head(ns)) \o <<NL>>
    ELSE to_string(Head(ns)) \o <<SP>> \o Line(Tail(ns))

ReadOnly(data) == [ex |-> TRUE, wr |-> FALSE, data |-> data]

Compat(family) == <<"nvidia,board", NUL, "nvidia," \o family, NUL>>

(* What identifies the board: [family, compat, machine, model], each a     *)
(* file.                                                                   *)
Ident(fa, co, ma, mo) == [family |-> fa, compat |-> co, machine |-> ma, model |-> mo]

IdentPrimary(family, machine) ==
    Ident(ReadOnly(family), ReadOnly(Compat("tegra000")), ReadOnly(machine), NoFile)

IdentDeviceTree(compat, model) ==
    Ident(NoFile, ReadOnly(compat), NoFile, ReadOnly(model))

IdentNone == Ident(NoFile, NoFile, NoFile, NoFile)

SupportedFamilies == {"tegra186", "tegra194", "tegra210"}

IdentsPrimary ==
    {IdentPrimary(Str(f), Str("board")) : f \in SupportedFamilies \cup {"tegra124"}}
    \cup {IdentPrimary(<<"tegra186", NL>>, <<"quill", NL>>),
          IdentPrimary(Str("tegra124"), TK1),
          IdentPrimary(Str("tegra210"), TK1)}

IdentsDeviceTree ==
    {IdentDeviceTree(Compat(f), Str("board")) : f \in SupportedFamilies \cup {"tegra124"}}
    \cup {IdentDeviceTree(<<"nvidia,tegra194", NUL, "nvidia,tegra186", NUL, "nvidia,tegra210", NUL>>,
                          Str("board")),
          IdentDeviceTree(<<"nvidia,tegra194", NUL, "nvidia,tegra186", NUL>>, Str("board")),
          IdentDeviceTree(Compat("tegra124"), TK1),
          IdentDeviceTree(Compat("tegra186"), <<"jetson-tk1", NL>>)}

Idents == IdentsPrimary \cup IdentsDeviceTree \cup {IdentNone}

Governors == <<"interactive", "powersave", "performance">>

(* The content a control file of a running board holds.                    *)
Healthy(p) ==
    IF p \in FanPaths THEN Line(<<80>>)
    ELSE IF p \in {d \o "available_frequencies" : d \in {GP10B, GM20B, GV11B}}
         THEN Line(<<100, 900, 500>>)
    ELSE IF p \in {d \o "min_freq" : d \in {GP10B, GM20B, GV11B}} THEN Line(<<100>>)
    ELSE IF p \in {d \o "max_freq" : d \in {GP10B, GM20B, GV11B}} THEN Line(<<900>>)
    ELSE IF p \in {d \o "cur_freq" : d \in {GP10B, GM20B, GV11B}} THEN Line(<<500>>)
    ELSE IF p \in {d \o "device/railgate_enable" : d \in {GP10B, GM20B, GV11B}}
         THEN Line(<<1>>)
    ELSE IF p = GPU_LOAD THEN Line(<<37>>)
    ELSE IF p = EMC_CAP THEN Line(<<300>>)
    ELSE IF p \in {BPMP_MIN, BWMGR_MIN, BWMGR_EMC_MIN} THEN Line(<<200>>)
    ELSE IF p \in {BPMP_MAX, BWMGR_MAX, BWMGR_EMC_MAX} THEN Line(<<900>>)
    ELSE IF p \in {BPMP_RATE, OVR_RATE} THEN Line(<<200>>)
    ELSE IF p \in {BPMP_LOCKED, OVR_STATE} THEN Line(<<0>>)
    ELSE IF p \in AuxPaths THEN Line(<<1>>)
    ELSE IF p \in {CpuPath(i, "scaling_available_frequencies") : i \in CpuIds}
         THEN Line(<<500, 100>>)
    ELSE IF p \in {CpuPath(i, "scaling_available_governors") : i \in CpuIds}
         THEN <<Governors[1], SP, Governors[2], SP, Governors[3], SP, NL>>
    ELSE IF p \in {CpuPath(i, "scaling_governor") : i \in CpuIds}
         THEN <<Governors[1], NL>>
    ELSE IF p \in {CpuPath(i, "scaling_min_freq") : i \in CpuIds} THEN Line(<<100>>)
    ELSE IF p \in {CpuPath(i, "scaling_max_freq") : i \in CpuIds} THEN Line(<<500>>)
    ELSE Line(<<100>>)

(* The state the control files are in.                                     *)
ControlFile(mode, p) ==
    CASE mode = "healthy"  -> File(Healthy(p))
      [] mode = "readonly" -> ReadOnly(Healthy(p))
      [] mode = "missing"  -> NoFile
      [] mode = "creatable" -> [ex |-> FALSE, wr |-> TRUE, data |-> <<>>]
      [] mode = "empty"    -> File(<<>>)
      [] mode = "garbled"  -> File(<<"n/a", NL>>)

Modes == {"healthy", "readonly", "missing", "creatable", "empty", "garbled"}

(* The file system of a board identified by id, its control files of       *)
(* family in mode m, every other control file in mode rest.                *)
FileSystem(id, in, m, rest) ==
    [p \in Paths |->
        CASE p = FAMILY  -> id.family
          [] p = COMPAT  -> id.compat
          [] p = MACHINE -> id.machine
          [] p = MODEL   -> id.model
          [] p = ""      -> NoFile
          [] OTHER       -> IF p \in in THEN ControlFile(m, p) ELSE ControlFile(rest, p)]

Entry(name, isdir) == [name |-> name, dir |-> isdir]

CpuDir(i) == Entry(<<"cpu">> \o to_string(i), TRUE)

RECURSIVE CpuDirs(_)
CpuDirs(n) == IF n < 0 THEN <<>> ELSE CpuDirs(n - 1) \o <<CpuDir(n)>>

(* /sys/devices/system/cpu/ of a board with cpus 0..MaxCpuId.              *)
BoardDirs ==
    [open |-> TRUE,
     names |-> <<Entry(Str("cpufreq"), TRUE), Entry(Str("online"), FALSE)>> \o CpuDirs(MaxCpuId)]

-----------------------------------------------------------------------------
(* Calls.                                                                  *)

NoCall ==
    [op |-> "none", args |-> <<>>, pre |-> <<>>, ret |-> "none", exc |-> "", err |-> "",
     rd |-> {}, wo |-> <<>>, wr |-> <<>>, at |-> <<>>, out |-> <<>>]

(* The process calls op(args) and the call ends as r.                      *)
Call(op, args, r) ==
    /\ calls < budget
    /\ calls' = calls + 1
    /\ fs' = r.w.fs
    /\ fds' = r.w.fds
    /\ prev' = last
    /\ last' = [op |-> op, args |-> args, pre |-> fs, ret |-> r.ret, exc |-> r.exc,
                err |-> r.err, rd |-> r.w.rd, wo |-> r.w.wo, wr |-> r.w.wr,
                at |-> r.w.at, out |-> r.w.out]
    /\ UNCHANGED <<root, variant, dirs, budget, limit, threads>>

W == World(fs, fds)

Full == variant \in {"bool", "throw"}

FanSpeeds   == {0, 7, 255}
GpuFreqArgs == {100, 900, 700}
EmcFreqArgs == {100, 250, 300, 900}
CpuFreqArgs == {100, 500, 700}
GovArgs     == {Str(Governors[2]), Str(Governors[3]), Str("turbo")}

GetSocFamily == Call("get_soc_family", <<>>, get_soc_family(variant, W))

GetMachine == Call("get_machine", <<>>, get_machine(variant, W))

SetFanSpeed ==
    \E s \in FanSpeeds : Call("set_fan_speed", <<s>>, set_fan_speed(variant, W, s))

GetFanSpeed == Full /\ Call("get_fan_speed", <<>>, get_fan_speed(variant, W))

GetGpuAvailableFreqs ==
    Full /\ Call("get_gpu_available_freqs", <<>>, get_gpu_available_freqs(variant, W))

SetGpuFreqRange ==
    /\ Full
    /\ \E lo \in GpuFreqArgs, hi \in GpuFreqArgs :
        Call("set_gpu_freq_range", <<lo, hi>>, set_gpu_freq_range(variant, W, lo, hi))

GetGpuCurFreq ==
    variant = "throw" /\ Call("get_gpu_cur_freq", <<>>, get_gpu_cur_freq(W))

GetGpuMinFreq ==
    variant = "throw" /\ Call("get_gpu_min_freq", <<>>, get_gpu_min_freq(W))

GetGpuMaxFreq ==
    variant = "throw" /\ Call("get_gpu_max_freq", <<>>, get_gpu_max_freq(W))

GetGpuCurrentUsage ==
    variant = "throw" /\ Call("get_gpu_current_usage", <<>>, get_gpu_current_usage(W))

GetEmcAvailable ==
    Full /\ Call("get_emc_available", <<>>, get_emc_available(variant, W))

GetEmcFreq == Full /\ Call("get_emc_freq", <<>>, get_emc_freq(variant, W))

SetEmcFreq ==
    /\ Full
    /\ \E f \in EmcFreqArgs : Call("set_emc_freq", <<f>>, set_emc_freq(variant, W, f))

GetCpuIds == Full /\ Call("get_cpu_ids", <<>>, get_cpu_ids(variant, W, dirs))

GetCpuAvailableFreqs ==
    /\ Full
    /\ \E i \in CpuIds :
        Call("get_cpu_available_freqs", <<i>>, get_cpu_available_freqs(variant, W, i))

GetCpuAvailableGovernors ==
    /\ Full
    /\ \E i \in CpuIds :
        Call("get_cpu_available_governors", <<i>>,
             get_cpu_available_governors(variant, W, i))

GetCpuGovernor ==
    /\ Full
    /\ \E i \in CpuIds : Call("get_cpu_governor", <<i>>, get_cpu_governor(variant, W, i))

GetCpuMinFreq ==
    /\ Full
    /\ \E i \in CpuIds :
        Call("get_cpu_min_freq", <<i>>, get_cpu_freq(variant, W, i, "scaling_min_freq"))

GetCpuMaxFreq ==
    /\ Full
    /\ \E i \in CpuIds :
        Call("get_cpu_max_freq", <<i>>, get_cpu_freq(variant, W, i, "scaling_max_freq"))

GetCpuCurFreq ==
    /\ Full
    /\ \E i \in CpuIds :
        Call("get_cpu_cur_freq", <<i>>, get_cpu_freq(variant, W, i, "scaling_cur_freq"))

SetCpuMinFreq ==
    /\ Full
    /\ \E i \in CpuIds, f \in CpuFreqArgs :
        Call("set_cpu_min_freq", <<i, f>>,
             set_cpu_freq(variant, W, i, f, "scaling_min_freq"))

SetCpuMaxFreq ==
    /\ Full
    /\ \E i \in CpuIds, f \in CpuFreqArgs :
        Call("set_cpu_max_freq", <<i, f>>,
             set_cpu_freq(variant, W, i, f, "scaling_max_freq"))

SetCpuGovernor ==
    /\ Full
    /\ \E i \in CpuIds, g \in GovArgs :
        Call("set_cpu_governor", <<i, g>>, set_cpu_governor(variant, W, i, g))

(* write_file called by the process itself: the helpers are free functions *)
(* of the header.                                                          *)
write_file_of(v, w, name, str) ==
    Bind(IF v = "legacy" THEN write_file_legacy(w, name, str)
         ELSE write_file(w, name, str), LAMBDA r : Ret(r.w, r.ret))

file_writable_of(v, w, name) ==
    Bind(IF v = "legacy" THEN file_writable_legacy(w, name)
         ELSE file_writable(w, name), LAMBDA r : Ret(r.w, r.ret))

WritePaths == {FAN_PWM, QOS, CpuPath(0, "scaling_governor")}

WriteStrings == {Str("0"), to_string(255), Str(Governors[3])}

WriteFile ==
    \E p \in WritePaths, str \in WriteStrings :
        Call("write_file", <<p, str>>, write_file_of(variant, W, p, str))

FileWritable ==
    \E p \in WritePaths : Call("file_writable", <<p>>, file_writable_of(variant, W, p))

-----------------------------------------------------------------------------
(* Specifications.                                                         *)

Variants == {"bool", "throw", "legacy"}

Start(ids, ins, ms, rests, n) ==
    /\ root \in BOOLEAN
    /\ variant \in Variants
    /\ \E id \in ids, in \in ins, m \in ms, rest \in rests :
        fs = FileSystem(id, in, m, rest)
    /\ dirs = BoardDirs
    /\ fds = 0
    /\ last = NoCall
    /\ prev = NoCall
    /\ calls = 0
    /\ budget = n
    /\ limit = OPEN_MAX
    /\ threads = <<>>

BoardOps == GetSocFamily \/ GetMachine

FanOps == SetFanSpeed \/ GetFanSpeed

GpuOps ==
    \/ GetGpuAvailableFreqs
    \/ SetGpuFreqRange
    \/ GetGpuCurFreq
    \/ GetGpuMinFreq
    \/ GetGpuMaxFreq
    \/ GetGpuCurrentUsage

EmcOps == GetEmcAvailable \/ GetEmcFreq \/ SetEmcFreq

CpuOps ==
    \/ GetCpuIds
    \/ GetCpuAvailableFreqs
    \/ GetCpuAvailableGovernors
    \/ GetCpuGovernor
    \/ GetCpuMinFreq
    \/ GetCpuMaxFreq
    \/ GetCpuCurFreq
    \/ SetCpuMinFreq
    \/ SetCpuMaxFreq
    \/ SetCpuGovernor

Init == Start(Idents, {ControlPaths}, Modes, {"healthy"}, 1)

Next == BoardOps \/ FanOps \/ GpuOps \/ EmcOps \/ CpuOps

Spec == Init /\ [][Next]_vars

-----------------------------------------------------------------------------
(* What the properties below speak of.                                     *)

Called == last.op # "none"

(* The world the last call started in.                                     *)
Before == World(last.pre, 0)

(* No write-mode open and no content change during the last call.          *)
Unwritten == last.wo = <<>> /\ last.wr = <<>> /\ fs = last.pre

CpuGetters ==
    {"get_cpu_available_freqs", "get_cpu_available_governors", "get_cpu_governor",
     "get_cpu_min_freq", "get_cpu_max_freq", "get_cpu_cur_freq"}

CpuSetters == {"set_cpu_min_freq", "set_cpu_max_freq", "set_cpu_governor"}

EmcGetters == {"get_emc_available", "get_emc_freq"}

GatedOps ==
    {"set_fan_speed", "get_fan_speed", "get_gpu_available_freqs", "set_gpu_freq_range",
     "set_emc_freq", "get_cpu_ids"} \cup EmcGetters \cup CpuGetters \cup CpuSetters

(* C1: a control operation called by a user who is not root fails with the *)
(* privilege error and leaves every file unwritten: no write-mode open, no *)
(* content change.                                                         *)
PrivilegeGateOnWrites ==
    (Called /\ last.op \in GatedOps /\ ~root)
        => (last.err = "privilege" /\ Unwritten)

ScalarGetters ==
    {"get_gpu_cur_freq", "get_gpu_min_freq", "get_gpu_max_freq", "get_gpu_current_usage",
     "get_emc_freq", "get_cpu_min_freq", "get_cpu_max_freq", "get_cpu_cur_freq"}

(* The call returned a value its operation also returns after reading it   *)
(* from a control file: a fan speed is an unsigned char, a frequency or a  *)
(* load a long.                                                            *)
ReturnsReadableValue ==
    /\ last.exc = ""
    /\ \/ last.op = "get_fan_speed" /\ last.ret \in 0..(UCHAR_MOD - 1)
       \/ last.op \in ScalarGetters /\ last.ret \in Int

(* C2: no call reads a control file unless the caller is root, and what a  *)
(* getter hands a caller who is not root cannot be taken for a value read  *)
(* from a control file.                                                    *)
PrivilegeGateOnReads ==
    (Called /\ ~root)
        => (last.rd \cap ControlPaths = {} /\ ~ReturnsReadableValue)

(* The list the getter that goes with the last CPU setter returns in the   *)
(* world the setter started in.                                            *)
AvailableToCpuSetter ==
    IF last.op = "set_cpu_governor"
    THEN get_cpu_available_governors(variant, Before, last.args[1])
    ELSE get_cpu_available_freqs(variant, Before, last.args[1])

Returned(r) == r.exc = "" /\ r.err = ""

(* C3: a CPU setter given a value that is not in the list its getter       *)
(* returns fails with the value-not-available error, and no file is        *)
(* written or opened for writing: the target keeps its content.            *)
CpuSettersRejectWithoutSideEffect ==
    (Called /\ last.op \in CpuSetters)
        => ((Returned(AvailableToCpuSetter)
                /\ ~Member(last.args[2], AvailableToCpuSetter.ret))
            => (last.err = "not_available" /\ Unwritten))

AvailableToGpuSetter == get_gpu_available_freqs(variant, Before)

GpuRangeRejected ==
    /\ Called
    /\ last.op = "set_gpu_freq_range"
    /\ Returned(AvailableToGpuSetter)
    /\ \/ ~Member(last.args[1], AvailableToGpuSetter.ret)
       \/ ~Member(last.args[2], AvailableToGpuSetter.ret)

(* C4: set_gpu_freq_range fails with the value-not-available error when    *)
(* min_freq or max_freq is not in the list get_gpu_available_freqs         *)
(* returns, and then none of min_freq, max_freq and railgate_enable is     *)
(* written.                                                                *)
GpuSetterRejectsWithoutSideEffect ==
    GpuRangeRejected => (last.err = "not_available" /\ Unwritten)

(* A legal min_freq with an illegal max_freq, on a board whose GPU files   *)
(* can be written: min_freq keeps its content.                             *)
GpuSetterRejectsBadMax ==
    /\ GpuRangeRejected
    /\ Member(last.args[1], AvailableToGpuSetter.ret)
    /\ last.pre[GP10B \o "min_freq"].wr
    /\ last.pre[GP10B \o "available_frequencies"].data = Line(<<100, 900, 500>>)
    /\ last.rd = {FAMILY, GP10B \o "available_frequencies"}
    /\ last.err = "not_available"
    /\ fs = last.pre

AvailableToEmcSetter == get_emc_available(variant, Before)

EmcSetterCalled ==
    /\ Called
    /\ last.op = "set_emc_freq"
    /\ Returned(AvailableToEmcSetter)

EmcMin == AvailableToEmcSetter.ret[1]
EmcMax == AvailableToEmcSetter.ret[2]

(* C5, as the code has it: set_emc_freq fails with the value-not-available *)
(* error and writes no file exactly when freq is below the min or above    *)
(* the max the availability getter returns; a value between the two is not *)
(* refused as unavailable.                                                 *)
EmcSetterRangeCheck ==
    EmcSetterCalled
        => IF last.args[1] < EmcMin \/ last.args[1] > EmcMax
           THEN last.err = "not_available" /\ Unwritten
           ELSE last.err # "not_available"

(* A value strictly between min and max is written to the rate file.       *)
EmcSetterAcceptsBetween ==
    /\ EmcSetterCalled
    /\ EmcMin < last.args[1]
    /\ last.args[1] < EmcMax
    /\ last.err = ""
    /\ \E i \in 1..Len(last.wr) : last.wr[i] = <<BPMP_RATE, to_string(last.args[1])>>
    /\ fs[BPMP_RATE].data = to_string(last.args[1])

(* C5, as it is worded: set_emc_freq fails with the value-not-available    *)
(* error and writes no file whenever freq is not one of the two values the *)
(* availability getter returns.                                            *)
EmcSetterMembershipCheck ==
    (EmcSetterCalled /\ last.args[1] \notin {EmcMin, EmcMax})
        => (last.err = "not_available" /\ Unwritten)

FamilyBefore == get_soc_family(variant, Before)

KnownFamilies == {Str(f) : f \in SupportedFamilies}

FamilyOps ==
    {"get_gpu_available_freqs", "set_gpu_freq_range", "get_emc_available",
     "get_emc_freq", "set_emc_freq"}

GpuScalarGetters == {"get_gpu_cur_freq", "get_gpu_min_freq", "get_gpu_max_freq"}

(* C6: when get_soc_family resolves to something that is not a known       *)
(* family, a family-dependent operation fails with the unsupported-        *)
(* platform error, whatever value was requested, and writes no file.       *)
UnknownFamilyFails ==
    (/\ Called
     /\ root
     /\ last.op \in FamilyOps
     /\ FamilyBefore.exc = ""
     /\ FamilyBefore.ret \notin KnownFamilies)
        => (last.err = "unsupported" /\ Unwritten)

(* A board of family f with every control file in place.                   *)
OnBoard(f) ==
    World(FileSystem(IdentPrimary(Str(f), Str("board")), ControlPaths, "healthy", "healthy"), 0)

(* The getter and the setter of the GPU range, and of the EMC rate, accept *)
(* the same families.                                                      *)
GetterAndSetterAgree ==
    \A f \in SupportedFamilies \cup {"tegra124"} :
        /\ Returned(get_gpu_available_freqs(variant, OnBoard(f)))
                <=> Returned(set_gpu_freq_range(variant, OnBoard(f), 100, 900))
        /\ Returned(get_emc_freq(variant, OnBoard(f)))
                <=> Returned(set_emc_freq(variant, OnBoard(f), 250))

(* C7: on tegra186, tegra194 and tegra210 a family-dependent operation     *)
(* does not fail as unsupported and resolves a path that is not empty, and *)
(* the getter of a control accepts the families its setter accepts.        *)
SupportedFamiliesResolve ==
    (/\ Called
     /\ root
     /\ last.op \in FamilyOps \cup GpuScalarGetters
     /\ FamilyBefore.exc = ""
     /\ FamilyBefore.ret \in KnownFamilies)
        => /\ last.err # "unsupported"
           /\ last.op \in GpuScalarGetters
                => gpu_scalar_path(FamilyBefore.ret, "cur_freq").path # ""
           /\ GetterAndSetterAgree

MachineBefore == get_machine(variant, Before)

PastPrivilegeGate == root \/ variant = "legacy"

OnTk1 ==
    /\ Called
    /\ PastPrivilegeGate
    /\ MachineBefore.exc = ""
    /\ MachineBefore.ret = TK1

Succeeded ==
    /\ last.exc = ""
    /\ last.err = ""
    /\ variant # "throw" => last.ret = TRUE

InitTwice == Start(Idents, {ControlPaths}, Modes, {"healthy"}, MaxCalls)

SameCallAgain == Called => (last'.op = last.op /\ last'.args = last.args)

NextTwice ==
    \/ SetFanSpeed /\ SameCallAgain
    \/ SetGpuFreqRange /\ SameCallAgain
    \/ SetEmcFreq /\ SameCallAgain
    \/ SetCpuMinFreq /\ SameCallAgain
    \/ SetCpuMaxFreq /\ SameCallAgain
    \/ SetCpuGovernor /\ SameCallAgain

SpecTwice == InitTwice /\ [][NextTwice]_vars

CalledTwice ==
    /\ prev.op # "none"
    /\ last.op = prev.op
    /\ last.args = prev.args

FirstCompatible(compat_file) ==
    IF Find(compat_file, Str("nvidia,tegra210")) THEN Str("tegra210")
    ELSE IF Find(compat_file, Str("nvidia,tegra186")) THEN Str("tegra186")
    ELSE Str("tegra194")

NamesAFamily(compat_file) ==
    \E f \in SupportedFamilies : Find(compat_file, Str("nvidia," \o f))

(* C10: get_soc_family returns the content of /sys/devices/soc0/family     *)
(* when that file exists; otherwise, when /proc/device-tree/compatible     *)
(* exists, the first of tegra210, tegra186, tegra194 that compatible       *)
(* names.                                                                  *)
SocFamilyDetection ==
    (Called /\ last.op = "get_soc_family")
        => IF last.pre[FAMILY].ex
           THEN last.exc = "" /\ last.ret = last.pre[FAMILY].data
           ELSE (last.pre[COMPAT].ex /\ NamesAFamily(last.pre[COMPAT].data))
                    => (last.exc = ""
                        /\ last.ret = FirstCompatible(last.pre[COMPAT].data))

-----------------------------------------------------------------------------
(* C11: get_soc_family returns tegra186, tegra194, tegra210 or the empty   *)
(* string, and nothing else: no other family name, no character after the  *)
(* name.                                                                   *)
SocFamilyIsEnumerated ==
    (Called /\ last.op = "get_soc_family" /\ last.exc = "")
        => last.ret \in KnownFamilies \cup {<<>>}

(* C12: get_soc_family and get_machine return a value on every file        *)
(* system: no exception leaves them, and they name no failure.             *)
BoardDiscoveryNeverFails ==
    (Called /\ last.op \in {"get_soc_family", "get_machine"})
        => Returned(last)

-----------------------------------------------------------------------------
(* The availability files of a board, each holding a list of frequencies  *)
(* of at most MaxLen values, separated by blanks or by newlines.           *)

MaxLen == 3

FreqValues == {100, 500, 900}

FreqLists == UNION {[1..k -> FreqValues] : k \in 0..MaxLen}

RECURSIVE FreqFile(_, _)
FreqFile(ns, sep) ==
    IF ns = <<>> THEN <<NL>>
    ELSE IF Len(ns) = 1 THEN to_string(Head(ns)) \o <<NL>>
    ELSE to_string(Head(ns)) \o <<sep>> \o FreqFile(Tail(ns), sep)

AvailPaths ==
    {d \o "available_frequencies" : d \in {GP10B, GM20B, GV11B}}
    \cup {CpuPath(i, "scaling_available_frequencies") : i \in CpuIds}

SupportedIdents ==
    {IdentPrimary(Str(f), Str("board")) : f \in SupportedFamilies}
    \cup {IdentDeviceTree(Compat(f), Str("board")) : f \in SupportedFamilies}

InitAvail ==
    /\ root \in BOOLEAN
    /\ variant \in {"bool", "throw"}
    /\ \E id \in SupportedIdents, ns \in FreqLists, sep \in {SP, NL} :
        fs = [p \in Paths |->
                IF p \in AvailPaths THEN File(FreqFile(ns, sep))
                ELSE FileSystem(id, ControlPaths, "healthy", "healthy")[p]]
    /\ dirs = BoardDirs
    /\ fds = 0
    /\ last = NoCall
    /\ prev = NoCall
    /\ calls = 0
    /\ budget = 1
    /\ limit = OPEN_MAX
    /\ threads = <<>>

NextAvail == GetGpuAvailableFreqs \/ GetCpuAvailableFreqs

SpecAvail == InitAvail /\ [][NextAvail]_vars

Ascending(v) == \A i \in 1..(Len(v) - 1) : v[i] <= v[i + 1]

Count(v, x) == Cardinality({i \in 1..Len(v) : v[i] = x})

Permutation(a, b) ==
    /\ Len(a) = Len(b)
    /\ \A i \in 1..Len(a) : Count(a, a[i]) = Count(b, a[i])

AvailGetters == {"get_gpu_available_freqs", "get_cpu_available_freqs"}

-----------------------------------------------------------------------------
(* Boards whose iso-cap file and nominal max files hold varied values.     *)

EmcCaps == {-1, 0, 300, 900, 1000}

EmcNominals == {600, 900}

EmcMaxPaths == {BPMP_MAX, BWMGR_MAX, BWMGR_EMC_MAX}

InitEmc ==
    /\ root \in BOOLEAN
    /\ variant \in {"bool", "throw"}
    /\ \E id \in SupportedIdents, c \in EmcCaps, n \in EmcNominals :
        fs = [p \in Paths |->
                IF p = EMC_CAP THEN File(Line(<<c>>))
                ELSE IF p \in EmcMaxPaths THEN File(Line(<<n>>))
                ELSE FileSystem(id, ControlPaths, "healthy", "healthy")[p]]
    /\ dirs = BoardDirs
    /\ fds = 0
    /\ last = NoCall
    /\ prev = NoCall
    /\ calls = 0
    /\ budget = 1
    /\ limit = OPEN_MAX
    /\ threads = <<>>

NextEmc == GetEmcAvailable \/ SetEmcFreq

SpecEmc == InitEmc /\ [][NextEmc]_vars

CappedFamilies == {Str("tegra186"), Str("tegra194")}

EffectiveMax(family, cap, nominal) ==
    IF family \in CappedFamilies /\ cap > 0 /\ cap < nominal THEN cap ELSE nominal

(* The effective maximum of the board the last call ran on, for the cap c  *)
(* and the nominal maximum n its files hold.                               *)
HoldsEmc(c, n) ==
    /\ last.pre[EMC_CAP].data = Line(<<c>>)
    /\ \A p \in EmcMaxPaths : last.pre[p].data = Line(<<n>>)

(* The min rate every board of InitEmc holds.                              *)
EmcLowerEnd == ReadLongs(Healthy(BPMP_MIN))[1]

(* C14: on tegra186, tegra194 and tegra210 the EMC availability getter     *)
(* reports, and set_emc_freq uses as its upper bound, the iso-cap value    *)
(* when the family has the cap and 0 < cap < nominal max, and the nominal  *)
(* max otherwise.                                                          *)
EmcCappedMaximum ==
    (/\ Called
     /\ root
     /\ last.op \in {"get_emc_available", "set_emc_freq"}
     /\ FamilyBefore.exc = ""
     /\ FamilyBefore.ret \in KnownFamilies)
        => \A c \in EmcCaps, n \in EmcNominals :
              HoldsEmc(c, n)
                  => IF last.op = "get_emc_available"
                     THEN /\ Returned(last)
                          /\ last.ret[2] = EffectiveMax(FamilyBefore.ret, c, n)
                     ELSE IF last.args[1] > EffectiveMax(FamilyBefore.ret, c, n)
                          THEN last.err = "not_available"
                          ELSE last.args[1] >= EmcLowerEnd => Succeeded

(* The capping rule on the boards where the availability getter answers:   *)
(* what is left of the above once the unsupported families are set aside.  *)
EmcCappedMaximumWhereSupported ==
    (/\ Called
     /\ root
     /\ last.op \in {"get_emc_available", "set_emc_freq"}
     /\ Returned(AvailableToEmcSetter))
        => \A c \in EmcCaps, n \in EmcNominals :
              HoldsEmc(c, n)
                  => IF last.op = "get_emc_available"
                     THEN /\ Returned(last)
                          /\ last.ret[2] = EffectiveMax(FamilyBefore.ret, c, n)
                     ELSE IF last.args[1] > EffectiveMax(FamilyBefore.ret, c, n)
                          THEN last.err = "not_available"
                          ELSE last.args[1] >= EmcLowerEnd => Succeeded

-----------------------------------------------------------------------------
(* Boards whose available-governors files list the names one per blank or  *)
(* one per line.                                                           *)

GovFile(sep) ==
    <<Governors[1], sep, Governors[2], sep, Governors[3], NL>>

GovListPaths == {CpuPath(i, "scaling_available_governors") : i \in CpuIds}

InitGov ==
    /\ root \in BOOLEAN
    /\ variant \in {"bool", "throw"}
    /\ \E id \in SupportedIdents, sep \in {SP, NL} :
        fs = [p \in Paths |->
                IF p \in GovListPaths THEN File(GovFile(sep))
                ELSE FileSystem(id, ControlPaths, "healthy", "healthy")[p]]
    /\ dirs = BoardDirs
    /\ fds = 0
    /\ last = NoCall
    /\ prev = NoCall
    /\ calls = 0
    /\ budget = 1
    /\ limit = OPEN_MAX
    /\ threads = <<>>

NextGov == GetCpuAvailableGovernors \/ SetCpuGovernor

SpecGov == InitGov /\ [][NextGov]_vars

GovernorNames == [i \in 1..Len(Governors) |-> Str(Governors[i])]

(* C15: from an available-governors file whose names are separated by      *)
(* blanks or by newlines, get_cpu_available_governors returns each name as *)
(* one element, in file order, and set_cpu_governor accepts each of the    *)
(* names and refuses any other as not available.                           *)
GovernorListParsing ==
    (/\ Called
     /\ root
     /\ last.op \in {"get_cpu_available_governors", "set_cpu_governor"}
     /\ \E sep \in {SP, NL} :
            last.pre[CpuPath(last.args[1], "scaling_available_governors")].data
                = GovFile(sep))
        => IF last.op = "get_cpu_available_governors"
           THEN Returned(last) /\ last.ret = GovernorNames
           ELSE IF Member(last.args[2], GovernorNames)
                THEN Succeeded
                ELSE last.err = "not_available"

-----------------------------------------------------------------------------
(* A process that calls write_file itself, on boards whose control files   *)
(* are in any of the modes.                                                *)

InitFile == Start(SupportedIdents, {ControlPaths}, Modes, {"healthy"}, 1)

NextFile == WriteFile \/ FileWritable

SpecFile == InitFile /\ [][NextFile]_vars

(* C16: write_file(path, s) and file_writable(path) return true exactly    *)
(* when path exists and can be opened for writing, and after a write_file  *)
(* that returned true path holds s; when either returns false no file      *)
(* changes and none is created; no other file changes either way.          *)
WriteFileContract ==
    (Called /\ last.op \in {"write_file", "file_writable"})
        => /\ last.ret = (last.pre[last.args[1]].ex /\ last.pre[last.args[1]].wr)
           /\ (last.ret /\ last.op = "write_file")
                  => fs[last.args[1]] = File(last.args[2])
           /\ ~last.ret => fs = last.pre
           /\ \A q \in Paths \ {last.args[1]} : fs[q] = last.pre[q]

-----------------------------------------------------------------------------
Setters ==
    {"set_fan_speed", "set_gpu_freq_range", "set_emc_freq", "set_cpu_min_freq",
     "set_cpu_max_freq", "set_cpu_governor"}

(* Some write_file call of the last call returned false: it was called     *)
(* more times than it wrote.                                               *)
SomeWriteFailed == Len(last.at) > Len(last.wr)

(* C17: a setter one of whose write_file calls returned false does not     *)
(* report success: it returns false, or an exception leaves it.            *)
SettersReportWriteFailures ==
    (Called /\ last.op \in Setters /\ SomeWriteFailed) => ~Succeeded

-----------------------------------------------------------------------------
(* Content made of integers and white space alone.                         *)
NumericContent(data) ==
    \A i \in 1..Len(data) : IsDigit(data[i]) \/ IsSpace(data[i]) \/ data[i] = "-"

NumberGetters ==
    {"get_fan_speed", "get_emc_available", "get_emc_freq", "get_cpu_min_freq",
     "get_cpu_max_freq", "get_cpu_cur_freq", "get_gpu_cur_freq", "get_gpu_min_freq",
     "get_gpu_max_freq", "get_gpu_available_freqs", "get_cpu_available_freqs"}

(* C18: a getter of an integer or of a list of integers that reads a       *)
(* control file whose content is not integers and white space fails with a *)
(* parse error: it does not return a value.                                *)
NonNumericContentFails ==
    (/\ Called
     /\ last.op \in NumberGetters
     /\ \E p \in last.rd \cap ControlPaths : ~NumericContent(last.pre[p].data))
        => last.err = "parse"

-----------------------------------------------------------------------------
(* Boards on which one group of the files a setter writes is read-only or  *)
(* missing while the others are as on a running board.                     *)

CpuTargets ==
    {CpuPath(i, l) : i \in CpuIds,
                     l \in {"scaling_governor", "scaling_min_freq", "scaling_max_freq"}}

FailSets ==
    {{}, {QOS}, {CC3_M}, {CC3_B}, CpuTargets,
     {d \o "max_freq" : d \in {GP10B, GM20B, GV11B}}, {BPMP_LOCKED, OVR_STATE}}

PartialIdents ==
    SupportedIdents \cup {IdentNone, IdentPrimary(<<"tegra186", NL>>, <<"quill", NL>>)}

InitPartial == Start(PartialIdents, FailSets, {"readonly", "missing"}, {"healthy"}, 1)

NextPartial ==
    \/ SetGpuFreqRange
    \/ SetEmcFreq
    \/ SetCpuMinFreq
    \/ SetCpuMaxFreq
    \/ SetCpuGovernor

SpecPartial == InitPartial /\ [][NextPartial]_vars

(* Each path was handed to write_file at most once during the last call.   *)
WrittenOnce ==
    \A i, j \in 1..Len(last.at) : i # j => last.at[i] # last.at[j]

(* Every file the last call wrote holds what was written to it.            *)
WritesKept ==
    \A i \in 1..Len(last.wr) : fs[last.wr[i][1]] = File(last.wr[i][2])

(* C19: a setter neither undoes nor retries a write: whatever the later    *)
(* writes of its sequence did, each file it wrote holds the new value when *)
(* the call ends, and no path was written a second time.                   *)
SettersDoNotRollBack ==
    (Called /\ last.op \in Setters) => (WrittenOnce /\ WritesKept)

(* The file a CPU setter is called to change.                              *)
CpuTarget ==
    CpuPath(last.args[1],
            CASE last.op = "set_cpu_min_freq" -> "scaling_min_freq"
              [] last.op = "set_cpu_max_freq" -> "scaling_max_freq"
              [] OTHER -> "scaling_governor")

(* The QoS file holds 0, the write of the target failed and the target     *)
(* holds its old value, and the caller is told the call succeeded.         *)
QosOffTargetStale ==
    /\ Called
    /\ last.op \in CpuSetters
    /\ last.pre[QOS].data # Str("0")
    /\ fs[QOS].data = Str("0")
    /\ last.at[Len(last.at)] = CpuTarget
    /\ \A i \in 1..Len(last.wr) : last.wr[i][1] # CpuTarget
    /\ fs[CpuTarget] = last.pre[CpuTarget]
    /\ Succeeded

-----------------------------------------------------------------------------
(* The last call is a CPU setter whose argument passed every check made    *)
(* before the writes: root, the target present (and, for the frequency     *)
(* setters, writable), the value in the list the getter returns.           *)
CpuSetterAccepted ==
    /\ Called
    /\ root
    /\ last.op \in CpuSetters
    /\ last.pre[CpuTarget].ex
    /\ last.op # "set_cpu_governor" => last.pre[CpuTarget].wr
    /\ Returned(AvailableToCpuSetter)
    /\ Member(last.args[2], AvailableToCpuSetter.ret)

OnTegra186 == FamilyBefore.exc = "" /\ FamilyBefore.ret = Str("tegra186")

CpuWriteSequence ==
    <<QOS>> \o (IF OnTegra186 THEN <<CC3_M, CC3_B>> ELSE <<>>) \o <<CpuTarget>>

(* C20: an accepted call of set_cpu_min_freq, set_cpu_max_freq or          *)
(* set_cpu_governor calls write_file on the QoS enable file first, then on *)
(* the two cc3 enable files exactly when the family is tegra186, then on   *)
(* the target, whatever the earlier writes returned; what it writes to the *)
(* QoS and cc3 files is 0.                                                 *)
CpuSetterWriteOrder ==
    CpuSetterAccepted
        => /\ last.at = CpuWriteSequence
           /\ \A i \in 1..Len(last.wr) :
                 last.wr[i][1] \in AuxPaths => last.wr[i][2] = Str("0")

(* The same of the calls during which board discovery does not raise.      *)
CpuSetterWriteOrderOnKnownBoard ==
    (CpuSetterAccepted /\ FamilyBefore.exc = "") => CpuSetterWriteOrder

-----------------------------------------------------------------------------
(* Two threads of a root process on a running board, each in               *)
(* set_fan_speed(speed) of a full copy, taken one file-system call at a    *)
(* time.  Once past get_machine the call is file_writable(path), then      *)
(* write_file(path, text): file_writable again, the std::ofstream          *)
(* constructor, and the flush of the text when the stream is destroyed.    *)
(* Each stream writes from its own offset 0.                               *)

set_fan_speed_steps == <<"exists", "fopen", "exists", "fopen", "ofstream", "flush">>

Threads == {1, 2}

(* write(fd, text) at offset 0 of a file that another open may have filled *)
(* since this stream truncated it.                                         *)
Overlay(old, text) == text \o SubSeq(old, Len(text) + 1, Len(old))

Running(t) ==
    /\ threads # <<>>
    /\ threads[t].ret = "running"
    /\ threads[t].pc <= Len(set_fan_speed_steps)

StepOf(t) == set_fan_speed_steps[threads[t].pc]

Advance(t) ==
    threads' = [threads EXCEPT ![t].pc = @ + 1,
                               ![t].ret = IF threads[t].pc = Len(set_fan_speed_steps)
                                          THEN "true" ELSE @]

ThreadProbes(t) ==
    /\ Running(t)
    /\ StepOf(t) = "exists"
    /\ IF file_exists(W, FAN_DEBUG) THEN Advance(t)
       ELSE threads' = [threads EXCEPT ![t].ret = "false"]
    /\ UNCHANGED <<root, variant, fs, dirs, fds, last, prev, calls, budget, limit>>

ThreadOpens(t) ==
    /\ Running(t)
    /\ StepOf(t) \in {"fopen", "ofstream"}
    /\ IF fs[FAN_DEBUG].wr
       THEN /\ fs' = [fs EXCEPT ![FAN_DEBUG] = File(<<>>)]
            /\ fds' = IF StepOf(t) = "fopen" THEN fds + 1 ELSE fds
            /\ Advance(t)
       ELSE /\ threads' = [threads EXCEPT ![t].ret = "false"]
            /\ UNCHANGED <<fs, fds>>
    /\ UNCHANGED <<root, variant, dirs, last, prev, calls, budget, limit>>

ThreadFlushes(t) ==
    /\ Running(t)
    /\ StepOf(t) = "flush"
    /\ fs' = [fs EXCEPT ![FAN_DEBUG] =
                  File(Overlay(@.data, to_string(threads[t].speed)))]
    /\ Advance(t)
    /\ UNCHANGED <<root, variant, dirs, fds, last, prev, calls, budget, limit>>

InitRace ==
    /\ root = TRUE
    /\ variant \in {"bool", "throw"}
    /\ \E id \in SupportedIdents, m \in {"healthy", "empty", "garbled"} :
        fs = FileSystem(id, FanPaths, m, "healthy")
    /\ dirs = BoardDirs
    /\ fds = 0
    /\ last = NoCall
    /\ prev = NoCall
    /\ calls = 0
    /\ budget = 0
    /\ limit = OPEN_MAX
    /\ \E a \in FanSpeeds : \E b \in FanSpeeds \ {a} :
        threads = [t \in Threads |->
                     [pc |-> 1, speed |-> IF t = 1 THEN a ELSE b, ret |-> "running"]]

NextRace ==
    \E t \in Threads : ThreadProbes(t) \/ ThreadOpens(t) \/ ThreadFlushes(t)

SpecRace == InitRace /\ [][NextRace]_vars

BothReturned == threads # <<>> /\ \A t \in Threads : threads[t].ret # "running"

(* C21: when two threads have set the fan to two different speeds, however *)
(* their file-system calls interleaved, both calls returned success and    *)
(* the file holds the text of one of the two speeds.                       *)
RacingWritersLastWriteWins ==
    BothReturned
        => /\ \A t \in Threads : threads[t].ret = "true"
           /\ \E t \in Threads : fs[FAN_DEBUG].data = to_string(threads[t].speed)

-----------------------------------------------------------------------------
(* Boards on which either fan file, both or none is missing.               *)

InitFan ==
    Start(Idents, {{}, {FAN_DEBUG}, {FAN_PWM}, FanPaths}, {"missing"}, {"healthy"}, 1)

NextFan == SetFanSpeed \/ GetFanSpeed

SpecFan == InitFan /\ [][NextFan]_vars

(* The fan file in use on the board the last call started on: the first of *)
(* the two that is there, "" when neither is.                              *)
FanTarget ==
    IF last.pre[FAN_DEBUG].ex THEN FAN_DEBUG
    ELSE IF last.pre[FAN_PWM].ex THEN FAN_PWM
    ELSE ""

FanCallOffTk1 ==
    /\ Called
    /\ root
    /\ last.op \in {"set_fan_speed", "get_fan_speed"}
    /\ MachineBefore.exc = ""
    /\ MachineBefore.ret # TK1

(* C22: off the jetson-tk1, a root caller's set_fan_speed writes the       *)
(* decimal text of the speed to the debug target_pwm when it is there, to  *)
(* the pwm-fan one otherwise, and to no other file; get_fan_speed reads    *)
(* the same file; when neither is there both fail with the resource error  *)
(* and nothing is written.                                                 *)
FanTargetResolution ==
    FanCallOffTk1
        => IF FanTarget = ""
           THEN last.err = "resource" /\ last.wr = <<>> /\ fs = last.pre
           ELSE IF last.op = "set_fan_speed"
                THEN /\ Succeeded
                     /\ last.wr = << <<FanTarget, to_string(last.args[1])>> >>
                     /\ fs[FanTarget].data = to_string(last.args[1])
                ELSE last.rd \cap FanPaths = {FanTarget}

-----------------------------------------------------------------------------
(* C23: no exception leaves an operation of the bool copy, whatever the    *)
(* files hold: a failure is a returned value and a printed message.        *)
BoolCopyNeverAborts ==
    (Called /\ variant = "bool")
        => /\ last.exc = ""
           /\ last.err # "" => last.out # <<>>

-----------------------------------------------------------------------------
(* The files f with the identification files of id in place of its own.    *)
WithIdent(f, id) ==
    [p \in Paths |->
        CASE p = FAMILY  -> id.family
          [] p = COMPAT  -> id.compat
          [] p = MACHINE -> id.machine
          [] p = MODEL   -> id.model
          [] OTHER       -> f[p]]

(* The last call, a CPU setter, made again from the world w.               *)
SameCpuSetterOn(w) ==
    CASE last.op = "set_cpu_min_freq" ->
            set_cpu_freq(variant, w, last.args[1], last.args[2], "scaling_min_freq")
      [] last.op = "set_cpu_max_freq" ->
            set_cpu_freq(variant, w, last.args[1], last.args[2], "scaling_max_freq")
      [] OTHER ->
            set_cpu_governor(variant, w, last.args[1], last.args[2])

(* C24: a CPU setter called with a legal value ends the same way, and      *)
(* leaves the same content in its target, on every board that has the same *)
(* cpufreq files, whatever the identification files of the board hold.     *)
CpuSettersIgnoreIdentification ==
    (/\ Called
     /\ root
     /\ last.op \in CpuSetters
     /\ Returned(AvailableToCpuSetter)
     /\ Member(last.args[2], AvailableToCpuSetter.ret))
        => \A id \in Idents :
              /\ SameCpuSetterOn(World(WithIdent(last.pre, id), 0)).exc = last.exc
              /\ SameCpuSetterOn(World(WithIdent(last.pre, id), 0)).err = last.err
              /\ SameCpuSetterOn(World(WithIdent(last.pre, id), 0)).ret = last.ret
              /\ SameCpuSetterOn(World(WithIdent(last.pre, id), 0)).w.fs[CpuTarget]
                    = fs[CpuTarget]

-----------------------------------------------------------------------------
(* A process on a running board that calls a setter and then the getter    *)
(* that goes with it, as the example programs do.                          *)

InitRound == Start(Idents, {ControlPaths}, {"healthy"}, {"healthy"}, MaxCalls)

NextRound ==
    \/ SetFanSpeed /\ calls = 0
    \/ GetFanSpeed /\ last.op = "set_fan_speed"
    \/ SetCpuMinFreq /\ calls = 0
    \/ GetCpuMinFreq /\ last.op = "set_cpu_min_freq"
    \/ SetCpuMaxFreq /\ calls = 0
    \/ GetCpuMaxFreq /\ last.op = "set_cpu_max_freq"
    \/ SetCpuGovernor /\ calls = 0
    \/ GetCpuGovernor /\ last.op = "set_cpu_governor"
    \/ SetEmcFreq /\ calls = 0

SpecRound == InitRound /\ [][NextRound]_vars

GetterOf ==
    [o \in {"get_fan_speed", "get_cpu_min_freq", "get_cpu_max_freq", "get_cpu_governor"}
        |-> CASE o = "get_fan_speed"    -> "set_fan_speed"
              [] o = "get_cpu_min_freq" -> "set_cpu_min_freq"
              [] o = "get_cpu_max_freq" -> "set_cpu_max_freq"
              [] OTHER                  -> "set_cpu_governor"]

(* The last call is a getter and the call before it the setter of the same *)
(* control, made by root off the jetson-tk1 with a value its availability  *)
(* getter lists (any speed, for the fan).                                  *)
SetThenGet ==
    /\ Called
    /\ root
    /\ last.op \in DOMAIN GetterOf
    /\ prev.op = GetterOf[last.op]
    /\ IF last.op = "get_fan_speed"
       THEN LET m == get_machine(variant, World(prev.pre, 0))
            IN  m.exc = "" /\ m.ret # TK1
       ELSE /\ prev.args[1] = last.args[1]
            /\ LET a == IF prev.op = "set_cpu_governor"
                        THEN get_cpu_available_governors(variant, World(prev.pre, 0),
                                                         prev.args[1])
                        ELSE get_cpu_available_freqs(variant, World(prev.pre, 0),
                                                     prev.args[1])
               IN  Returned(a) /\ Member(prev.args[2], a.ret)

(* C25: a setter called with an available value succeeds and the getter    *)
(* called next returns that value: the fan speed, the minimum and maximum  *)
(* frequency and the governor of a CPU; set_emc_freq succeeds on the       *)
(* maximum of the available range.                                         *)
SetThenGetRoundTrip ==
    /\ SetThenGet
          => /\ Returned(prev)
             /\ variant = "bool" => prev.ret = TRUE
             /\ Returned(last)
             /\ last.ret = prev.args[Len(prev.args)]
    /\ (EmcSetterCalled /\ root /\ last.args[1] = EmcMax) => Succeeded

-----------------------------------------------------------------------------
(* CPU identifier discovery.  /sys/devices/system/cpu/ holds up to         *)
(* MaxEntries of the entries below, in any readdir order, or cannot be     *)
(* opened.                                                                 *)

MaxEntries == 3

CpuEntries ==
    {Entry(<<"cpu">> \o to_string(0), TRUE), Entry(<<"cpu">> \o to_string(1), TRUE),
     Entry(<<"cpu">> \o to_string(10), TRUE), Entry(<<"x", "cpu">> \o to_string(1), TRUE),
     Entry(Str("cpufreq"), TRUE), Entry(Str("online"), FALSE)}

Listings ==
    {s \in UNION {[1..n -> CpuEntries] : n \in 0..MaxEntries} :
        \A i \in 1..Len(s) : \A j \in 1..Len(s) : s[i] = s[j] => i = j}

InitCpu ==
    /\ root \in BOOLEAN
    /\ variant \in {"bool", "throw"}
    /\ fs = FileSystem(IdentNone, ControlPaths, "healthy", "healthy")
    /\ \E o \in BOOLEAN, ns \in Listings : dirs = [open |-> o, names |-> ns]
    /\ fds = 0
    /\ last = NoCall
    /\ prev = NoCall
    /\ calls = 0
    /\ budget = 1
    /\ limit = OPEN_MAX
    /\ threads = <<>>

NextCpu == GetCpuIds \/ GetCpuCurFreq

SpecCpu == InitCpu /\ [][NextCpu]_vars

(* The name is cpu<N>: cpu followed by the decimal digits of N.            *)
IsCpuDir(e) ==
    /\ e.dir
    /\ Len(e.name) >= 2
    /\ e.name[1] = "cpu"
    /\ \A i \in 2..Len(e.name) : IsDigit(e.name[i])

CpuNumber(e) == IntOf(FALSE, Tail(e.name))

ExistingCpus == {CpuNumber(dirs.names[i]) : i \in {j \in 1..Len(dirs.names) : IsCpuDir(dirs.names[j])}}

(* C26: get_cpu_ids, called by root, returns in ascending order exactly    *)
(* one identifier per directory cpu<N> of /sys/devices/system/cpu/ (its    *)
(* number N), without duplicates and without any other identifier; when    *)
(* the directory cannot be opened it returns the empty list and reports no *)
(* error.                                                                  *)
CpuIdDiscovery ==
    (last.op = "get_cpu_ids" /\ root) =>
        /\ last.exc = ""
        /\ last.err = ""
        /\ IF ~dirs.open THEN last.ret = <<>>
           ELSE /\ Ascending(last.ret)
                /\ \A i \in 1..Len(last.ret) : Count(last.ret, last.ret[i]) = 1
                /\ {last.ret[i] : i \in 1..Len(last.ret)} = ExistingCpus

(* The same on directories whose cpu<N> entries have one-digit numbers and *)
(* no other name ends in cpu and a digit.                                  *)
CpuIdDiscoverySingleDigit ==
    (\A i \in 1..Len(dirs.names) : MatchesCpu(dirs.names[i].name) <=> IsCpuDir(dirs.names[i]))
        => CpuIdDiscovery

-----------------------------------------------------------------------------
(* Getters and probes.                                                     *)

FileExists ==
    \E p \in WritePaths : Call("file_exists", <<p>>, Ret(W, file_exists(W, p)))

InitProbe ==
    Start(SupportedIdents, {ControlPaths}, {"healthy", "readonly", "missing", "empty"},
          {"healthy"}, 1)

NextProbe ==
    \/ FileExists
    \/ FileWritable
    \/ GetSocFamily
    \/ GetMachine
    \/ GetFanSpeed
    \/ GetGpuAvailableFreqs
    \/ GetGpuCurFreq
    \/ GetGpuMinFreq
    \/ GetGpuMaxFreq
    \/ GetGpuCurrentUsage
    \/ GetEmcAvailable
    \/ GetEmcFreq
    \/ GetCpuIds
    \/ GetCpuAvailableFreqs
    \/ GetCpuAvailableGovernors
    \/ GetCpuGovernor
    \/ GetCpuMinFreq
    \/ GetCpuMaxFreq
    \/ GetCpuCurFreq

SpecProbe == InitProbe /\ [][NextProbe]_vars

ContentKept == \A p \in Paths : last.pre[p].ex => (fs[p].ex /\ fs[p].data = last.pre[p].data)

(* C27: no getter and no availability or writability probe changes the     *)
(* content of a file: after file_exists, file_writable or any get_ call     *)
(* every file holds what it held before the call.                          *)
GettersAndProbesKeepContent == Called => ContentKept

(* The same for the calls that open no file in write mode.                 *)
ReadersKeepContent == (Called /\ last.wo = <<>>) => fs = last.pre

-----------------------------------------------------------------------------
(* The handles of the writability probes.  The process may hold MaxHandles *)
(* handles and makes one call more than that.                              *)

MaxHandles == 2

LeakIdents ==
    {IdentPrimary(Str("tegra186"), Str("board")), IdentDeviceTree(Compat("tegra210"), TK1)}

(* One accepted argument list per setter, and one that is rejected.        *)
Chosen ==
    CASE last'.op = "set_fan_speed"      -> last'.args = <<0>>
      [] last'.op = "set_gpu_freq_range" -> last'.args \in {<<100, 900>>, <<700, 900>>}
      [] last'.op = "set_emc_freq"       -> last'.args = <<900>>
      [] last'.op = "set_cpu_governor"   -> last'.args = <<0, Str(Governors[3])>>
      [] OTHER                           -> last'.args = <<0, 500>>

InitLeak ==
    /\ root \in BOOLEAN
    /\ variant \in {"bool", "throw"}
    /\ \E id \in LeakIdents : fs = FileSystem(id, ControlPaths, "healthy", "healthy")
    /\ dirs = BoardDirs
    /\ fds = 0
    /\ last = NoCall
    /\ prev = NoCall
    /\ calls = 0
    /\ budget = MaxHandles + 1
    /\ limit = MaxHandles
    /\ threads = <<>>

NextLeak ==
    \/ SetFanSpeed /\ Chosen
    \/ SetGpuFreqRange /\ Chosen
    \/ SetEmcFreq /\ Chosen
    \/ SetCpuMinFreq /\ Chosen
    \/ SetCpuMaxFreq /\ Chosen
    \/ SetCpuGovernor /\ Chosen
    \/ FileWritable
    \/ FileExists
    \/ GetFanSpeed
    \/ GetCpuIds

SpecLeak == InitLeak /\ [][NextLeak]_vars

(* The last call reported a failure: an exception, an error message, or    *)
(* false from a call that answers with a bool.                             *)
CallFailed ==
    \/ last.exc # ""
    \/ last.err # ""
    \/ /\ last.op \in {"file_exists", "file_writable"}
                          \cup (IF variant = "bool" THEN Setters ELSE {})
       /\ last.ret = FALSE

-----------------------------------------------------------------------------
(* The order of the two ends of the GPU range.                             *)

GpuRangeCalled == last.op = "set_gpu_freq_range"

(* The same call with its two arguments exchanged, made in the same world. *)
GpuRangeExchanged == set_gpu_freq_range(variant, Before, last.args[2], last.args[1])

(* A call reports success and has written its three files.                 *)
GpuRangeAccepted(r) ==
    /\ r.exc = ""
    /\ r.err = ""
    /\ variant = "bool" => r.ret = TRUE
    /\ Len(r.w.wr) = 3

GpuRangeWritten(d) ==
    /\ last.wr = <<<<d \o "min_freq", to_string(last.args[1])>>,
                   <<d \o "max_freq", to_string(last.args[2])>>,
                   <<d \o "device/railgate_enable", Str("0")>>>>
    /\ ReadLongs(fs[d \o "min_freq"].data) = <<last.args[1]>>
    /\ ReadLongs(fs[d \o "max_freq"].data) = <<last.args[2]>>

(* C29: set_gpu_freq_range does not compare its two arguments: a call with *)
(* min_freq > max_freq is accepted whenever the call with the two values   *)
(* in order is, and writes min_freq to the min_freq file, max_freq to the  *)
(* max_freq file and 0 to railgate_enable, in that order, which leaves the *)
(* min_freq file holding more than the max_freq file.                      *)
GpuRangeOrderUnchecked ==
    (GpuRangeCalled /\ last.args[1] > last.args[2] /\ GpuRangeAccepted(GpuRangeExchanged))
        => /\ Succeeded
           /\ \E d \in {GP10B, GM20B, GV11B} : GpuRangeWritten(d)

(* An accepted call left the min_freq file above the max_freq file.        *)
GpuRangeInverted ==
    /\ GpuRangeCalled
    /\ last.args[1] > last.args[2]
    /\ GpuRangeAccepted(GpuRangeExchanged)
    /\ Succeeded
    /\ \E d \in {GP10B, GM20B, GV11B} :
        /\ GpuRangeWritten(d)
        /\ ReadLongs(fs[d \o "min_freq"].data)[1] > ReadLongs(fs[d \o "max_freq"].data)[1]

-----------------------------------------------------------------------------
(* The width of the numbers read.  Every control file holds the same       *)
(* number, taken around the ends of the int range and of the unsigned char *)
(* range.                                                                  *)

WideNumerals ==
    {NatDigits(INT_MAX), IntMinDigits, <<"-">> \o IntMinDigits,
     <<"-", "2", "1", "4", "7", "4", "8", "3", "6", "4", "9">>,
     NatDigits(255), NatDigits(300), <<"-">> \o NatDigits(1)}

InitWide ==
    /\ root \in BOOLEAN
    /\ variant \in {"bool", "throw"}
    /\ \E id \in SupportedIdents, n \in WideNumerals :
        fs = [p \in Paths |->
                IF p \in ControlPaths THEN File(n \o <<NL>>)
                ELSE FileSystem(id, ControlPaths, "healthy", "healthy")[p]]
    /\ dirs = BoardDirs
    /\ fds = 0
    /\ last = NoCall
    /\ prev = NoCall
    /\ calls = 0
    /\ budget = 1
    /\ limit = OPEN_MAX
    /\ threads = <<>>

NextWide ==
    \/ GetFanSpeed
    \/ GetGpuAvailableFreqs
    \/ GetGpuCurFreq
    \/ GetGpuMinFreq
    \/ GetGpuMaxFreq
    \/ GetEmcAvailable
    \/ GetEmcFreq
    \/ GetCpuAvailableFreqs
    \/ GetCpuMinFreq
    \/ GetCpuMaxFreq
    \/ GetCpuCurFreq

SpecWide == InitWide /\ [][NextWide]_vars

LongGetters ==
    {"get_emc_freq", "get_emc_available", "get_cpu_min_freq", "get_cpu_max_freq",
     "get_cpu_cur_freq"} \cup GpuScalarGetters

(* The number the control files held when the last call started.           *)
Held == ScanInt(last.pre[FAN_DEBUG].data)

(* |v| > 2^31 - 1                                                          *)
BeyondIntMax == ~DigitsLeq(StripZeros(Held.run), NatDigits(INT_MAX))

ReadControlFile == last.rd \cap ControlPaths # {}

(* C30: a getter that returns a long int fails when the file it reads      *)
(* holds a value v with |v| > 2^31 - 1, where a list getter returns v as a *)
(* member of its list; get_fan_speed returns the integer its file holds    *)
(* reduced modulo 256.                                                     *)
ScalarGettersParseAsInt ==
    (Called /\ ReadControlFile)
        => /\ (last.op \in LongGetters /\ BeyondIntMax) => (last.exc # "" \/ last.err # "")
           /\ (last.op \in AvailGetters /\ BeyondIntMax)
                => /\ Returned(last)
                   /\ Member(LongOf(Held.neg, Held.run), last.ret)
           /\ (last.op = "get_fan_speed" /\ InIntRange(Held.neg, Held.run))
                => /\ Returned(last)
                   /\ last.ret = IntOf(Held.neg, Held.run) % UCHAR_MOD

(* The same with the int range in place of |v| <= 2^31 - 1, get_fan_speed  *)
(* being that of the copy that reads its file as it found it.              *)
ScalarGettersParseAsIntInRange ==
    (Called /\ ReadControlFile /\ ~(variant = "throw" /\ last.op = "get_fan_speed"))
        => /\ (last.op \in LongGetters /\ ~InIntRange(Held.neg, Held.run))
                => (last.exc # "" \/ last.err # "")
           /\ (last.op \in AvailGetters /\ ~InIntRange(Held.neg, Held.run))
                => /\ Returned(last)
                   /\ Member(LongOf(Held.neg, Held.run), last.ret)
           /\ (last.op = "get_fan_speed" /\ InIntRange(Held.neg, Held.run))
                => /\ Returned(last)
                   /\ last.ret = IntOf(Held.neg, Held.run) % UCHAR_MOD

====
